---- MODULE Spec2Model ----
(***************************************************************************)
(* A model of the rs-lox interpreter front end and evaluator:              *)
(*   - the iterator scanner of vm-lox/src/scanner.rs and the earlier       *)
(*     scanner of src/scanner/mod.rs (specification SpecScan);             *)
(*   - the recursive-descent parser of src/parser.rs over the token stream *)
(*     its scanner yields (specification SpecParse);                       *)
(*   - the resolver of tree-lox/src/resolver.rs, the tree-walking          *)
(*     interpreter of src/interpreter.rs and run_file of src/user/mod.rs,  *)
(*     run twice in one process (specification SpecRun).                   *)
(* Characters are one-element strings; "NUL" is the character '\0' and     *)
(* "U2" is a character whose UTF-8 encoding is two bytes long.             *)
(***************************************************************************)
EXTENDS Integers, Sequences, FiniteSets, TLC

VARIABLES
    impl,       \* which scanner revision runs: "vm" or "mod"
    source,     \* the source string, as a sequence of characters
    scanner,    \* the fields of the Scanner struct
    tokens,     \* the items the token iterator has yielded so far
    exhausted,  \* TRUE once the iterator has returned None
    parser,     \* the fields of the Parser struct
    stmts,      \* parse_program's statement vector
    outcome,    \* the ParserOutcome, once Parser::parse has returned
    pipeline    \* the runs of run_file in one process

scanVars == <<impl, source, scanner, tokens, exhausted>>

parseVars == <<parser, stmts, outcome>>

vars == <<impl, source, scanner, tokens, exhausted, parser, stmts, outcome, pipeline>>

\* ------------------------------------------------------------------ bounds

\* Longest source string the scanner specification enumerates.
MaxLen == 3

\* Most fragments a token stream of the parser specification is made of.
MaxFragments == 3

\* The delimiters a token string given to the parser has open at once.
MaxDepth == 2

\* Most calls a program of the pipeline specification repeats.
MaxCalls == 3

\* Longest chain of classes, a class and its superclasses.
MaxChain == 2

\* Most property reads and writes done on the instances.
MaxOps == 2

\* ------------------------------------------------------------ characters

EOF_CHAR == "NUL"

Alphabet == {"!", "=", "<", ">", "/", ".", "o", "r", "1", " ", "\n", "\"", "U2", "NUL"}

AsciiDigits == {"0", "1", "2", "3", "4", "5", "6", "7", "8", "9"}

AsciiLetters ==
    {"a", "b", "c", "d", "e", "f", "g", "h", "i", "j", "k", "l", "m",
     "n", "o", "p", "q", "r", "s", "t", "u", "v", "w", "x", "y", "z",
     "A", "B", "C", "D", "E", "F", "G", "H", "I", "J", "K", "L", "M",
     "N", "O", "P", "Q", "R", "S", "T", "U", "V", "W", "X", "Y", "Z"}

is_ascii_digit(c) == c \in AsciiDigits

is_ascii_whitespace(c) == c \in {" ", "\t", "\n", "\f", "\r"}

is_valid_identifier_start(c) == c \in AsciiLetters \/ c = "_"

is_valid_identifier_tail(c) == is_ascii_digit(c) \/ is_valid_identifier_start(c)

\* char::len_utf8
len_utf8(c) == IF c = "U2" THEN 2 ELSE 1

\* The UTF-8 encoding of a character, as a sequence of bytes.
utf8(c) == IF c = "U2" THEN <<"U2#1", "U2#2">> ELSE <<c>>

RECURSIVE str_bytes(_)
\* The bytes of a string (str::as_bytes).
str_bytes(s) == IF s = <<>> THEN <<>> ELSE utf8(Head(s)) \o str_bytes(Tail(s))

\* str::len, in bytes.
str_len(s) == Len(str_bytes(s))

Min(a, b) == IF a <= b THEN a ELSE b
Max(a, b) == IF a >= b THEN a ELSE b

\* Span::new
Span_new(lo, hi) == [lo |-> Min(lo, hi), hi |-> Max(lo, hi)]

\* Span::to
Span_to(a, b) == Span_new(Min(a.lo, b.lo), Max(a.hi, b.hi))

\* ------------------------------------------------- vm-lox/src/scanner.rs

KEYWORDS_MAP ==
    [ lexeme \in {
        <<"n","i","l">>, <<"t","r","u","e">>, <<"f","a","l","s","e">>,
        <<"t","h","i","s">>, <<"s","u","p","e","r">>, <<"c","l","a","s","s">>,
        <<"a","n","d">>, <<"o","r">>, <<"i","f">>, <<"e","l","s","e">>,
        <<"r","e","t","u","r","n">>, <<"f","u","n">>, <<"f","o","r">>,
        <<"w","h","i","l","e">>, <<"v","a","r">>, <<"p","r","i","n","t">>,
        <<"t","y","p","e","o","f">>, <<"s","h","o","w">> } |->
      CASE lexeme = <<"n","i","l">> -> "Nil"
        [] lexeme = <<"t","r","u","e">> -> "True"
        [] lexeme = <<"f","a","l","s","e">> -> "False"
        [] lexeme = <<"t","h","i","s">> -> "This"
        [] lexeme = <<"s","u","p","e","r">> -> "Super"
        [] lexeme = <<"c","l","a","s","s">> -> "Class"
        [] lexeme = <<"a","n","d">> -> "And"
        [] lexeme = <<"o","r">> -> "Or"
        [] lexeme = <<"i","f">> -> "If"
        [] lexeme = <<"e","l","s","e">> -> "Else"
        [] lexeme = <<"r","e","t","u","r","n">> -> "Return"
        [] lexeme = <<"f","u","n">> -> "Fun"
        [] lexeme = <<"f","o","r">> -> "For"
        [] lexeme = <<"w","h","i","l","e">> -> "While"
        [] lexeme = <<"v","a","r">> -> "Var"
        [] lexeme = <<"p","r","i","n","t">> -> "Print"
        [] lexeme = <<"t","y","p","e","o","f">> -> "Typeof"
        [] lexeme = <<"s","h","o","w">> -> "Show" ]

\* TokenKind::is_keyword
is_keyword(kind) ==
    kind \in {"Nil", "True", "False", "This", "Super", "Class", "And", "Or", "If",
              "Else", "Return", "Fun", "For", "While", "Var", "Print", "Typeof", "Show"}

DigitChars == <<"0", "1", "2", "3", "4", "5", "6", "7", "8", "9">>

DigitValue(c) == (CHOOSE i \in 1..10 : DigitChars[i] = c) - 1

RECURSIVE DigitsValue(_, _)
\* The value of a run of decimal digits, continuing from acc.
DigitsValue(ds, acc) ==
    IF ds = <<>> THEN acc ELSE DigitsValue(Tail(ds), acc * 10 + DigitValue(Head(ds)))

RECURSIVE Normalised(_, _)
\* mantissa / 10^scale with the trailing zeros of the fraction dropped.
Normalised(mantissa, scale) ==
    IF scale > 0 /\ mantissa % 10 = 0 THEN Normalised(mantissa \div 10, scale - 1)
    ELSE <<mantissa, scale>>

\* str::parse::<f64> on the lexemes the scanner hands it: digits, optionally
\* followed by a dot and digits. The number is kept as <<mantissa, scale>>,
\* standing for mantissa / 10^scale.
parse_f64(bytes) ==
    LET dots == {i \in 1..Len(bytes) : bytes[i] = "."}
        digs == {i \in 1..Len(bytes) : is_ascii_digit(bytes[i])}
    IN  IF bytes = <<>> \/ Cardinality(dots) > 1 \/ dots \cup digs # 1..Len(bytes)
           \/ digs = {}
        THEN [ok |-> FALSE, value |-> <<>>]
        ELSE LET dot == IF dots = {} THEN Len(bytes) + 1 ELSE CHOOSE i \in dots : TRUE
                 whole == SubSeq(bytes, 1, dot - 1)
                 frac == SubSeq(bytes, dot + 1, Len(bytes))
             IN  [ok |-> TRUE,
                  value |-> Normalised(DigitsValue(whole \o frac, 0), Len(frac))]

\* Scanner::new
Scanner_new ==
    [iter |-> 0, lexme_start |-> 0, lexme_end |-> 0, done |-> FALSE,
     panicked |-> FALSE, lex |-> <<>>]

\* The mutated bump: every character counted as one byte.
bump_one_byte(src, s) ==
    IF s.iter < Len(src)
    THEN [s |-> [s EXCEPT !.iter = @ + 1, !.lexme_end = @ + 1,
                          !.lex = Append(@, src[s.iter + 1])],
          c |-> src[s.iter + 1]]
    ELSE IF s.done
         THEN [s |-> [s EXCEPT !.panicked = TRUE], c |-> EOF_CHAR]
         ELSE [s |-> [s EXCEPT !.done = TRUE], c |-> EOF_CHAR]

\* Scanner::bump: s.iter counts the characters source_iter has produced, s.lex
\* collects the characters bumped since the lexeme started.
bump(src, s) ==
    IF s.iter < Len(src)
    THEN [s |-> [s EXCEPT !.iter = @ + 1, !.lexme_end = @ + len_utf8(src[s.iter + 1]),
                          !.lex = Append(@, src[s.iter + 1])],
          c |-> src[s.iter + 1]]
    ELSE IF s.done
         THEN [s |-> [s EXCEPT !.panicked = TRUE], c |-> EOF_CHAR]
         ELSE [s |-> [s EXCEPT !.done = TRUE], c |-> EOF_CHAR]

\* Scanner::peek_first
peek_first(src, s) == IF s.iter < Len(src) THEN src[s.iter + 1] ELSE EOF_CHAR

\* Scanner::peek_second
peek_second(src, s) == IF s.iter + 1 < Len(src) THEN src[s.iter + 2] ELSE EOF_CHAR

\* Scanner::is_at_end
Scanner_is_at_end(src, s) == s.iter >= Len(src)

\* Scanner::next_and
next_and(src, s, expected, a, b) ==
    IF peek_first(src, s) = expected
    THEN [s |-> bump(src, s).s, kind |-> a]
    ELSE [s |-> s, kind |-> b]

\* Scanner::slice: the bytes source[lexme_start + left .. lexme_end - right].
slice(src, s, left_modifier, right_modifier) ==
    SubSeq(str_bytes(src), s.lexme_start + left_modifier + 1, s.lexme_end - right_modifier)

RECURSIVE bump_until_quote(_, _)
\* while self.peek_first() != '"' && !self.is_at_end() { self.bump(); }
bump_until_quote(src, s) ==
    IF peek_first(src, s) # "\"" /\ ~Scanner_is_at_end(src, s)
    THEN bump_until_quote(src, bump(src, s).s)
    ELSE s

RECURSIVE bump_digits(_, _)
\* while self.peek_first().is_ascii_digit() { self.bump(); }
bump_digits(src, s) ==
    IF is_ascii_digit(peek_first(src, s)) THEN bump_digits(src, bump(src, s).s) ELSE s

RECURSIVE bump_identifier_letters(_, _)
\* An identifier loop that stops at a digit.
bump_identifier_letters(src, s) ==
    IF is_valid_identifier_start(peek_first(src, s))
    THEN bump_identifier_letters(src, bump(src, s).s)
    ELSE s

RECURSIVE bump_identifier_tail(_, _)
\* while is_valid_identifier_tail(self.peek_first()) { self.bump(); }
bump_identifier_tail(src, s) ==
    IF is_valid_identifier_tail(peek_first(src, s))
    THEN bump_identifier_tail(src, bump(src, s).s)
    ELSE s

RECURSIVE bump_line(_, _)
\* while self.peek_first() != '\n' && !self.is_at_end() { self.bump(); }
bump_line(src, s) ==
    IF peek_first(src, s) # "\n" /\ ~Scanner_is_at_end(src, s)
    THEN bump_line(src, bump(src, s).s)
    ELSE s

SingleCharKind(c) ==
    CASE c = "(" -> "LeftParen"
      [] c = ")" -> "RightParen"
      [] c = "{" -> "LeftBrace"
      [] c = "}" -> "RightBrace"
      [] c = ";" -> "Semicolon"
      [] c = "," -> "Comma"
      [] c = "." -> "Dot"
      [] c = "+" -> "Plus"
      [] c = "-" -> "Minus"
      [] c = "*" -> "Star"
      [] c = "/" -> "Slash"

\* Scanner::scan_kind
scan_kind(src, s0) ==
    LET b == bump(src, s0)
        current == b.c
        s == b.s
    IN  CASE current = EOF_CHAR -> [s |-> s, kind |-> "Eof", val |-> <<>>]
          [] current \in {"(", ")", "{", "}", ";", ",", ".", "+", "-", "*", "/"} ->
                [s |-> s, kind |-> SingleCharKind(current), val |-> <<>>]
          [] current = "=" ->
                LET r == next_and(src, s, "=", "EqualEqual", "Equal")
                IN  [s |-> r.s, kind |-> r.kind, val |-> <<>>]
          [] current = "!" ->
                LET r == next_and(src, s, "=", "BangEqual", "Bang")
                IN  [s |-> r.s, kind |-> r.kind, val |-> <<>>]
          [] current = "<" ->
                LET r == next_and(src, s, "=", "LessEqual", "Less")
                IN  [s |-> r.s, kind |-> r.kind, val |-> <<>>]
          [] current = ">" ->
                LET r == next_and(src, s, "=", "GreaterEqual", "Greater")
                IN  [s |-> r.s, kind |-> r.kind, val |-> <<>>]
          [] current = "\"" ->
                LET s1 == bump_until_quote(src, s)
                IN  IF Scanner_is_at_end(src, s1)
                    THEN [s |-> s1, kind |-> "Error", val |-> <<"Unterminated string">>]
                    ELSE LET s2 == bump(src, s1).s
                         IN  [s |-> s2, kind |-> "String", val |-> slice(src, s2, 1, 1)]
          [] is_ascii_digit(current) ->
                LET s1 == bump_digits(src, s)
                    s2 == IF peek_first(src, s1) = "." /\ is_ascii_digit(peek_second(src, s1))
                          THEN bump_digits(src, bump(src, s1).s)
                          ELSE s1
                    parsed == parse_f64(slice(src, s2, 0, 0))
                IN  IF parsed.ok
                    THEN [s |-> s2, kind |-> "Number", val |-> parsed.value]
                    ELSE [s |-> s2, kind |-> "Error",
                          val |-> <<"Could not parse number literal value">>]
          [] is_valid_identifier_start(current) ->
                LET s1 == bump_identifier_tail(src, s)
                    ident_str == slice(src, s1, 0, 0)
                IN  IF ident_str \in DOMAIN KEYWORDS_MAP
                    THEN [s |-> s1, kind |-> KEYWORDS_MAP[ident_str], val |-> <<>>]
                    ELSE [s |-> s1, kind |-> "Identifier", val |-> ident_str]
          [] OTHER -> [s |-> s, kind |-> "Error", val |-> <<"Unexpected token", current>>]

RECURSIVE skip_whitespace_and_comment(_, _)
\* Scanner::skip_whitespace_and_comment
skip_whitespace_and_comment(src, s) ==
    LET c == peek_first(src, s)
    IN  IF c = "/"
        THEN IF peek_second(src, s) = "/"
             THEN skip_whitespace_and_comment(src, bump_line(src, s))
             ELSE s
        ELSE IF is_ascii_whitespace(c)
             THEN skip_whitespace_and_comment(src, bump(src, s).s)
             ELSE s

\* Scanner::scan_token. The token also records where its lexeme starts (at, a
\* character index) and the characters that were bumped for it (lexeme).
scan_token(src, s0) ==
    LET s1 == skip_whitespace_and_comment(src, s0)
        s2 == [s1 EXCEPT !.lexme_start = s1.lexme_end, !.lex = <<>>]
        k == scan_kind(src, s2)
    IN  [s |-> k.s,
         token |-> [kind |-> k.kind, val |-> k.val,
                    span |-> Span_new(k.s.lexme_start, k.s.lexme_end),
                    at |-> s2.iter, lexeme |-> k.s.lex]]

\* impl Iterator for Scanner: next() on a scanner that is not done.
VmNext ==
    /\ impl = "vm"
    /\ ~exhausted
    /\ ~scanner.done
    /\ LET r == scan_token(source, scanner)
       IN  /\ scanner' = r.s
           /\ tokens' = Append(tokens, r.token)
    /\ UNCHANGED <<impl, source, exhausted>>
    /\ UNCHANGED <<parseVars, pipeline>>

\* impl Iterator for Scanner: next() returns None once the scanner is done.
VmNone ==
    /\ impl = "vm"
    /\ ~exhausted
    /\ scanner.done
    /\ exhausted' = TRUE
    /\ UNCHANGED <<impl, source, scanner, tokens>>
    /\ UNCHANGED <<parseVars, pipeline>>

\* ------------------------------------------------- src/scanner/mod.rs

\* to_spanned applied to the i-th character of the source (char_indices).
to_spanned(src, i) ==
    LET lo == str_len(SubSeq(src, 1, i - 1))
    IN  [span |-> Span_new(lo, lo + len_utf8(src[i])), ch |-> src[i]]

\* unwrap_spanned's fallback: the end of the source, with the character '\0'.
end_spanned(src) == [span |-> Span_new(str_len(src), str_len(src)), ch |-> "NUL"]

\* Scanner::peek: the next spanned character of the input, which is left alone.
\* m.pos counts the characters taken from the input.
mod_peek(src, m) ==
    IF m.pos < Len(src) THEN to_spanned(src, m.pos + 1) ELSE end_spanned(src)

\* Scanner::advance
mod_advance(src, m) ==
    [m EXCEPT !.current = mod_peek(src, m),
              !.pos = IF m.pos < Len(src) THEN @ + 1 ELSE @]

\* Scanner::new
mod_new(src) ==
    [pos |-> IF Len(src) > 0 THEN 1 ELSE 0,
     current |-> IF Len(src) > 0 THEN to_spanned(src, 1)
                 ELSE [span |-> Span_new(0, 0), ch |-> "NUL"],
     lexme_lo_bound |-> Span_new(0, 0),
     done |-> FALSE]

\* Scanner::peek_is
mod_peek_is(src, m, expected) == mod_peek(src, m).ch = expected

\* Scanner::peek_match
mod_peek_match(src, m, expected) ==
    IF mod_peek(src, m).ch # expected
    THEN [m |-> m, ok |-> FALSE]
    ELSE [m |-> mod_advance(src, m), ok |-> TRUE]

\* Scanner::peek_expect
mod_peek_expect(src, m, expected) ==
    IF mod_peek(src, m).ch # expected
    THEN [m |-> m, ok |-> FALSE]
    ELSE [m |-> mod_advance(src, m), ok |-> TRUE]

\* Scanner::peek_select
mod_peek_select(src, m, expected, a, b) ==
    LET r == mod_peek_match(src, m, expected)
    IN  [m |-> r.m, kind |-> IF r.ok THEN a ELSE b]

\* Scanner::is_at_end
mod_is_at_end(m) == m.current.ch = "NUL"

\* Input::spanned: the bytes source[span.lo .. span.hi].
spanned(src, span) == SubSeq(str_bytes(src), span.lo + 1, span.hi)

\* Span::updated
Span_updated(span, lo, hi) == Span_new(span.lo + lo, span.hi + hi)

RECURSIVE mod_advance_until(_, _, _)
\* while !self.peek_is(stop) && !self.is_at_end() { self.advance(); }
mod_advance_until(src, m, stop) ==
    IF ~mod_peek_is(src, m, stop) /\ ~mod_is_at_end(m)
    THEN mod_advance_until(src, mod_advance(src, m), stop)
    ELSE m

\* Scanner::slash_or_comment
slash_or_comment(src, m) ==
    LET r == mod_peek_match(src, m, "/")
    IN  IF r.ok
        THEN LET m1 == mod_advance_until(src, r.m, "\n")
                 lit_span == Span_updated(Span_to(m1.lexme_lo_bound, m1.current.span), 2, 0)
             IN  [m |-> m1, kind |-> "Comment", val |-> spanned(src, lit_span)]
        ELSE [m |-> r.m, kind |-> "Slash", val |-> <<>>]

\* Scanner::string
mod_string(src, m) ==
    LET m1 == mod_advance_until(src, m, "\"")
        r == mod_peek_expect(src, m1, "\"")
    IN  IF ~r.ok
        THEN [m |-> r.m, ok |-> FALSE, kind |-> "Err", val |-> <<"Unexpected character">>]
        ELSE LET lit_span ==
                     Span_updated(Span_to(r.m.lexme_lo_bound, r.m.current.span), 1, -1)
             IN  [m |-> r.m, ok |-> TRUE, kind |-> "String", val |-> spanned(src, lit_span)]

\* Scanner::token. The token also records the character index its lexeme starts
\* at and the characters taken from the input since then (lexeme).
mod_token(src, m, kind, val, at) ==
    LET span == Span_to(m.lexme_lo_bound, m.current.span)
    IN  [m |-> mod_advance(src, m),
         token |-> [kind |-> kind, val |-> val, span |-> span,
                    lexme |-> spanned(src, span),
                    at |-> at,
                    lexeme |-> SubSeq(src, at + 1, m.pos)]]

\* Scanner::scan_token. ok is FALSE for the Err results (bail!).
mod_scan_token(src, m) ==
    LET span == m.current.span
        char == m.current.ch
        at == IF span.hi > span.lo THEN m.pos - 1 ELSE m.pos
        k == CASE char = "NUL" -> [m |-> m, ok |-> TRUE, kind |-> "Eof", val |-> <<>>]
               [] char \in {"(", ")", "{", "}", ".", ",", ";", "+", "-", "*"} ->
                     [m |-> m, ok |-> TRUE, kind |-> SingleCharKind(char), val |-> <<>>]
               [] char = "\"" -> mod_string(src, m)
               [] char = "/" ->
                     LET r == slash_or_comment(src, m)
                     IN  [m |-> r.m, ok |-> TRUE, kind |-> r.kind, val |-> r.val]
               [] char = "<" ->
                     LET r == mod_peek_select(src, m, "=", "LessEqual", "Equal")
                     IN  [m |-> r.m, ok |-> TRUE, kind |-> r.kind, val |-> <<>>]
               [] char = ">" ->
                     LET r == mod_peek_select(src, m, "=", "GreaterEqual", "Greater")
                     IN  [m |-> r.m, ok |-> TRUE, kind |-> r.kind, val |-> <<>>]
               [] char = "!" ->
                     LET r == mod_peek_select(src, m, "=", "BangEqual", "Bang")
                     IN  [m |-> r.m, ok |-> TRUE, kind |-> r.kind, val |-> <<>>]
               [] char = "=" ->
                     LET r == mod_peek_select(src, m, "=", "EqualEqual", "Equal")
                     IN  [m |-> r.m, ok |-> TRUE, kind |-> r.kind, val |-> <<>>]
               [] is_ascii_whitespace(char) ->
                     [m |-> m, ok |-> TRUE, kind |-> "Whitespace", val |-> <<char>>]
               [] OTHER ->
                     [m |-> mod_advance(src, m), ok |-> FALSE, kind |-> "Err",
                      val |-> <<"Unexpected character">>]
    IN  IF k.ok
        THEN LET t == mod_token(src, k.m, k.kind, k.val, at)
             IN  [m |-> t.m, ok |-> TRUE, token |-> t.token]
        ELSE [m |-> k.m, ok |-> FALSE,
              token |-> [kind |-> "Err", val |-> k.val, span |-> span,
                         lexme |-> <<>>, at |-> at, lexeme |-> <<>>]]

\* Scanner::scan_tokens: one call of the iterator's closure while not done.
ModNext ==
    /\ impl = "mod"
    /\ ~exhausted
    /\ ~scanner.done
    /\ LET r == mod_scan_token(source, scanner)
       IN  /\ scanner' = [r.m EXCEPT !.done = r.ok /\ r.token.kind = "Eof",
                                     !.lexme_lo_bound = r.m.current.span]
           /\ tokens' = Append(tokens, r.token)
    /\ UNCHANGED <<impl, source, exhausted>>
    /\ UNCHANGED <<parseVars, pipeline>>

\* Scanner::scan_tokens: the closure returns None once done.
ModNone ==
    /\ impl = "mod"
    /\ ~exhausted
    /\ scanner.done
    /\ exhausted' = TRUE
    /\ UNCHANGED <<impl, source, scanner, tokens>>
    /\ UNCHANGED <<parseVars, pipeline>>

RECURSIVE Strings(_)
\* Every string of at most n characters over the alphabet.
Strings(n) ==
    IF n = 0 THEN {<<>>}
    ELSE LET shorter == Strings(n - 1)
         IN  shorter \cup {Append(s, c) : s \in {t \in shorter : Len(t) = n - 1}, c \in Alphabet}

ScanInit ==
    /\ impl \in {"vm", "mod"}
    /\ source \in Strings(MaxLen)
    /\ scanner = IF impl = "vm" THEN Scanner_new ELSE mod_new(source)
    /\ tokens = <<>>
    /\ exhausted = FALSE
    /\ parser = <<>> /\ stmts = <<>> /\ outcome = <<>>
    /\ pipeline = <<>>

ScanNext == VmNext \/ VmNone \/ ModNext \/ ModNone

SpecScan == ScanInit /\ [][ScanNext]_vars

\* impl Iterator for Scanner, collected: every token of a fresh scan of src.
RECURSIVE collect(_, _, _)
collect(src, s, acc) ==
    IF s.done THEN acc
    ELSE LET r == scan_token(src, s) IN collect(src, r.s, Append(acc, r.token))

\* tests/scanner.rs: is_separation_required
is_separation_required(kind1, kind2) ==
    \/ kind1 = "Slash" /\ kind2 = "Slash"
    \/ kind1 = "Equal" /\ kind2 \in {"Equal", "EqualEqual"}
    \/ kind1 = "Bang" /\ kind2 \in {"Equal", "EqualEqual"}
    \/ kind1 = "Less" /\ kind2 \in {"Equal", "EqualEqual"}
    \/ kind1 = "Greater" /\ kind2 \in {"Equal", "EqualEqual"}
    \/ kind1 = "Number" /\ kind2 = "Number"
    \/ is_keyword(kind1) /\ kind2 = "Number"
    \/ kind1 = "Identifier" /\ kind2 \in {"Identifier", "Number"}
    \/ is_keyword(kind1) /\ kind2 = "Identifier"
    \/ kind1 = "Identifier" /\ is_keyword(kind2)
    \/ is_keyword(kind1) /\ is_keyword(kind2)

\* --------------------------------------------------- claims C7 .. C10

\* The items that are tokens (the earlier scanner also yields Err results).
TokenIndexes == {i \in 1..Len(tokens) : tokens[i].kind # "Err"}

\* The character that follows position i of the source, '\0' at its end.
CharAt(i) == IF i >= 1 /\ i <= Len(source) THEN source[i] ELSE EOF_CHAR

\* C7: for any source string the token stream holds exactly one Eof token, it
\* is the last token, and the iterator yields nothing after it.
C7_ExactlyOneEofLast ==
    /\ \A i \in 1..Len(tokens) : tokens[i].kind = "Eof" => i = Len(tokens)
    /\ exhausted => Len(tokens) >= 1 /\ tokens[Len(tokens)].kind = "Eof"

TwoCharKind(c) ==
    CASE c = "!" -> "BangEqual" [] c = "=" -> "EqualEqual"
      [] c = "<" -> "LessEqual" [] c = ">" -> "GreaterEqual"

OneCharKind(c) ==
    CASE c = "!" -> "Bang" [] c = "=" -> "Equal"
      [] c = "<" -> "Less" [] c = ">" -> "Greater"

\* C8: a token that starts with `!`, `=`, `<` or `>` has the two-character kind
\* exactly when the next character is `=` and the one-character kind otherwise;
\* a token that starts with `/` is Slash unless the next character is `/`, and
\* then it is a comment that runs to the end of the line.
C8_OperatorLookahead ==
    \A i \in TokenIndexes :
        LET t == tokens[i]
            c == CharAt(t.at + 1)
            n == CharAt(t.at + 2)
        IN  /\ (t.at < Len(source) /\ c \in {"!", "=", "<", ">"}) =>
                   t.kind = IF n = "=" THEN TwoCharKind(c) ELSE OneCharKind(c)
            /\ (t.at < Len(source) /\ c = "/") =>
                   IF n = "/"
                   THEN /\ t.kind = "Comment"
                        /\ "\n" \notin {t.lexeme[j] : j \in 1..Len(t.lexeme)}
                        /\ CharAt(t.at + Len(t.lexeme) + 1) \in {"\n", EOF_CHAR}
                   ELSE t.kind = "Slash"

\* A string that scans, alone, as one token spanning all of it, then Eof.
SingleToken(l) ==
    LET ts == collect(l, Scanner_new, <<>>)
    IN  /\ Len(ts) = 2
        /\ ts[1].kind \notin {"Eof", "Error"}
        /\ ts[1].span = [lo |-> 0, hi |-> str_len(l)]
        /\ ts[2].kind = "Eof"

RECURSIVE IdentifierRun(_)
\* The longest prefix of cs made of identifier-tail characters.
IdentifierRun(cs) ==
    IF cs # <<>> /\ is_valid_identifier_tail(Head(cs))
    THEN <<Head(cs)>> \o IdentifierRun(Tail(cs))
    ELSE <<>>

\* C9: scanning is longest-match. The concatenation of two token lexemes scans
\* as exactly those two tokens and Eof unless the pair needs a separator, and a
\* token that starts with an identifier character is the longest identifier run,
\* a keyword only when the whole run is one.
C9_LongestMatch ==
    (impl = "vm" /\ exhausted) =>
        /\ \A i \in 1..(Len(source) - 1) :
              LET l1 == SubSeq(source, 1, i)
                  l2 == SubSeq(source, i + 1, Len(source))
                  t1 == collect(l1, Scanner_new, <<>>)[1]
                  t2 == collect(l2, Scanner_new, <<>>)[1]
              IN  (SingleToken(l1) /\ SingleToken(l2)
                   /\ ~is_separation_required(t1.kind, t2.kind)) =>
                      /\ Len(tokens) = 3
                      /\ tokens[1].kind = t1.kind /\ tokens[1].val = t1.val
                      /\ tokens[1].span = [lo |-> 0, hi |-> str_len(l1)]
                      /\ tokens[2].kind = t2.kind /\ tokens[2].val = t2.val
                      /\ tokens[2].span = [lo |-> str_len(l1), hi |-> str_len(source)]
                      /\ tokens[3].kind = "Eof"
        /\ \A i \in 1..Len(tokens) :
              LET t == tokens[i]
                  run == IdentifierRun(SubSeq(source, t.at + 1, Len(source)))
              IN  (t.at < Len(source) /\ is_valid_identifier_start(source[t.at + 1])) =>
                      /\ t.lexeme = run
                      /\ IF run \in DOMAIN KEYWORDS_MAP
                         THEN t.kind = KEYWORDS_MAP[run]
                         ELSE t.kind = "Identifier" /\ t.val = run

\* A keyword followed by an operator has been scanned as those two tokens.
C9_Witness ==
    /\ impl = "vm" /\ exhausted
    /\ source = <<"o", "r", "!">>
    /\ Len(tokens) = 3 /\ tokens[1].kind = "Or" /\ tokens[2].kind = "Bang"

\* C10: for every token, source[span.lo..span.hi] is its lexeme, lo <= hi <= the
\* length of the source in bytes, and the spans of successive tokens neither
\* overlap nor go backwards.
C10_SpansSliceTheSource ==
    /\ \A i \in TokenIndexes :
          LET t == tokens[i]
          IN  /\ t.span.lo <= t.span.hi
              /\ t.span.hi <= str_len(source)
              /\ spanned(source, t.span) = str_bytes(t.lexeme)
    /\ \A i, j \in TokenIndexes : i < j => tokens[i].span.hi <= tokens[j].span.lo

\* A token whose lexeme holds a two-byte character has been scanned, and another
\* token after it.
C10_Witness ==
    \E i, j \in TokenIndexes :
        /\ i < j
        /\ "U2" \in {tokens[i].lexeme[k] : k \in 1..Len(tokens[i].lexeme)}
        /\ tokens[j].span.lo > tokens[i].span.lo

\* ------------------------------------------------------- src/parser.rs
\* A token is [kind, val, span]; a parse result is [ok, p, v], the parser after
\* the call and the value or the ParseError it returned. Messages are written
\* with ' where the source has a backquote. The result of a call of a parse_*
\* method is bound by  CHOOSE r \in {e : x \in {call}} : TRUE,  which is e with
\* x standing for the value of the call.

\* const S_MUST
S_MUST == "Parser bug. Unexpected token"

\* Token::dummy
Token_dummy == [kind |-> "Dummy", val |-> <<>>, span |-> Span_new(0, 0)]

\* TokenKind::get_pair
get_pair(kind) ==
    CASE kind = "LeftParen" -> "RightParen"
      [] kind = "LeftBrace" -> "RightBrace"

Ok(p, v) == [ok |-> TRUE, p |-> p, v |-> v]

Err(p, e) == [ok |-> FALSE, p |-> p, v |-> e]

\* Some(x) of an Ok result's value
Some(r) == IF r.ok THEN [r EXCEPT !.v = <<r.v>>] ELSE r

\* Parser::is_at_end
is_at_end(p) == p.current_token.kind = "Eof"

RECURSIVE advance(_)
\* Parser::advance. scanner.next() of a scanner that has yielded all its items
\* is None, and the expect panics; advances counts the calls that returned.
advance(p) ==
    IF p.panicked \/ p.scanner.next > Len(p.scanner.items)
    THEN [p EXCEPT !.panicked = TRUE]
    ELSE LET maybe_next == p.scanner.items[p.scanner.next]
         IN  IF maybe_next.kind = "Error"
             THEN CHOOSE r \in {advance(p1) : p1 \in
                      {[p EXCEPT !.scanner.next = @ + 1,
                                 !.diagnostics =
                                     Append(@, [kind |-> "ScanError",
                                                error |-> maybe_next.val,
                                                span |-> maybe_next.span])]}} : TRUE
             ELSE IF maybe_next.kind \in {"Comment", "Whitespace"}
             THEN CHOOSE r \in {advance(p1) : p1 \in
                      {[p EXCEPT !.scanner.next = @ + 1]}} : TRUE
             ELSE [p EXCEPT !.scanner.next = @ + 1,
                            !.prev_token = p.current_token,
                            !.current_token = maybe_next,
                            !.advances = @ + 1]

\* Parser::is
is(p, expected) == p.current_token.kind = expected

\* Parser::take
take(p, expected) ==
    IF is(p, expected) THEN [p |-> advance(p), res |-> TRUE] ELSE [p |-> p, res |-> FALSE]

\* Parser::unexpected
unexpected(p, message, expected) ==
    [kind |-> "UnexpectedToken", message |-> message, expected |-> expected,
     offending |-> p.current_token]

\* ScanError::allows_continuation; a ScanError is <<variant>> or
\* <<"UnexpectedChar", char>>.
ScanError_allows_continuation(error) == error[1] = "UnterminatedString"

\* allows_continuation with every scan error eligible
ParseError_allows_continuation_any_scan_error(e) ==
    CASE e.kind = "UnexpectedToken" /\ e.offending.kind = "Eof" -> TRUE
      [] e.kind = "ScanError" -> TRUE
      [] OTHER -> FALSE

\* ParseError::allows_continuation
ParseError_allows_continuation(e) ==
    CASE e.kind = "UnexpectedToken" /\ e.offending.kind = "Eof" -> TRUE
      [] e.kind = "ScanError" /\ ScanError_allows_continuation(e.error) -> TRUE
      [] OTHER -> FALSE

\* Parser::consume
consume(p, expected, msg) ==
    IF is(p, expected)
    THEN CHOOSE r \in {Ok(p1, p1.prev_token) : p1 \in {advance(p)}} : TRUE
    ELSE Err(p, unexpected(p, msg, <<expected>>))

\* LoxIdent::new, with AstId::new drawing the identifier's id
LoxIdent_new(span, name, id) == [name |-> name, span |-> span, id |-> id]

\* Parser::consume_ident
consume_ident(p, msg) ==
    IF is(p, "Identifier")
    THEN CHOOSE r \in
             {Ok([p1 EXCEPT !.ast_id_seq = @ + 1],
                 LoxIdent_new(p1.prev_token.span, p1.prev_token.val, p1.ast_id_seq))
              : p1 \in {advance(p)}} : TRUE
    ELSE Err(p, unexpected(p, msg, <<"Identifier">>))

\* Parser::paired_spanned; the value is <<ret, span>>. `inner` names the closure
\* the caller passes (none of them captures a value); inner_call applies it.
paired_spanned(p, delim_start, delim_start_expectation, delim_end_expectation, inner(_)) ==
    CHOOSE r \in
        {IF ~start.ok THEN start
         ELSE CHOOSE r1 \in
                  {IF ~ret.ok THEN ret
                   ELSE CHOOSE r2 \in
                            {IF ~end.ok THEN end
                             ELSE Ok(end.p, <<ret.v, Span_to(start.v.span, end.v.span)>>)
                             : end \in {consume(ret.p, get_pair(delim_start),
                                                delim_end_expectation)}} : TRUE
                   : ret \in {inner(start.p)}} : TRUE
         : start \in {consume(p, delim_start, delim_start_expectation)}} : TRUE

\* Parser::paired
paired(p, delim_start, delim_start_expectation, delim_end_expectation, inner(_)) ==
    CHOOSE r \in
        {IF r1.ok THEN Ok(r1.p, r1.v[1]) ELSE r1
         : r1 \in {paired_spanned(p, delim_start, delim_start_expectation,
                                  delim_end_expectation, inner)}} : TRUE

RECURSIVE synchronize(_)
\* synchronize with '}' among the tokens it stops at.
synchronize_at_brace(p) ==
    IF is_at_end(p) \/ p.panicked THEN p
    ELSE IF p.current_token.kind = "Semicolon" THEN advance(p)
    ELSE IF p.current_token.kind \in
                {"Class", "For", "Fun", "If", "Print", "Return", "Var", "While",
                 "RightBrace"}
    THEN p
    ELSE CHOOSE r \in {synchronize(p1) : p1 \in {advance(p)}} : TRUE

RECURSIVE synchronize_at_declarations(_)
\* synchronize that stops at class, fun and var only, not at the statements
synchronize_at_declarations(p) ==
    IF is_at_end(p) \/ p.panicked THEN p
    ELSE IF p.current_token.kind = "Semicolon" THEN advance(p)
    ELSE IF p.current_token.kind \in {"Class", "Fun", "Var"}
    THEN p
    ELSE CHOOSE r \in {synchronize_at_declarations(p1) : p1 \in {advance(p)}} : TRUE

\* Parser::synchronize
synchronize(p) ==
    IF is_at_end(p) \/ p.panicked THEN p
    ELSE IF p.current_token.kind = "Semicolon" THEN advance(p)
    ELSE IF p.current_token.kind \in
                {"Class", "For", "Fun", "If", "Print", "Return", "Var", "While"}
    THEN p
    ELSE CHOOSE r \in {synchronize(p1) : p1 \in {advance(p)}} : TRUE

\* impl From<Token> for Lit
Lit_from(token) ==
    [value |-> CASE token.kind = "String" -> [type |-> "String", v |-> token.val]
                 [] token.kind = "Number" -> [type |-> "Number", v |-> token.val]
                 [] token.kind = "Nil" -> [type |-> "Nil", v |-> <<>>]
                 [] token.kind = "True" -> [type |-> "Boolean", v |-> <<TRUE>>]
                 [] token.kind = "False" -> [type |-> "Boolean", v |-> <<FALSE>>]]

RECURSIVE parse_decl(_), parse_var_decl(_), parse_class_decl(_), parse_fun_decl(_)
RECURSIVE parse_fn_params_and_body(_, _), parse_stmt(_), parse_if_stmt(_)
RECURSIVE parse_for_stmt(_), parse_while_stmt(_), parse_return_stmt(_)
RECURSIVE parse_print_stmt(_), parse_block(_), parse_expr_stmt(_), parse_expr(_)
RECURSIVE parse_assignment(_), parse_or(_), parse_and(_), parse_equality(_)
RECURSIVE parse_comparison(_), parse_term(_), parse_factor(_), parse_unary(_)
RECURSIVE parse_call_or_get(_), finish_call_parsing(_, _), parse_primary(_)
RECURSIVE class_methods(_, _), fn_params(_, _), block_stmts(_, _), for_clauses(_)
RECURSIVE call_args(_, _), call_or_get_loop(_, _), bin_expr_loop(_, _, _, _, _)
RECURSIVE next_production(_, _)

\* The production parse_decl matches the current token to.
decl_production(p) ==
    CASE p.current_token.kind = "Var" -> parse_var_decl(p)
      [] p.current_token.kind = "Class" -> parse_class_decl(p)
      [] p.current_token.kind = "Fun" -> parse_fun_decl(p)
      [] OTHER -> parse_stmt(p)

\* What parse_decl returns, [p, stmt]; stalled records a call that returns
\* without a token consumed since it was entered with the parser entry.
decl_return(entry, p, stmt) ==
    [p |-> [p EXCEPT !.stalled = @ \/ p.advances = entry.advances], stmt |-> stmt]

\* stmt::Dummy at the current token
Dummy_at(p) ==
    [kind |-> "Dummy",
     span |-> Span_new(p.current_token.span.lo, p.current_token.span.lo)]

\* parse_decl with an Err arm that does not push the error to diagnostics.
parse_decl_unreported(p) ==
    CHOOSE r \in
        {IF result.ok THEN decl_return(p, result.p, result.v)
         ELSE CHOOSE r1 \in {decl_return(p, p2, Dummy_at(p2))
                             : p2 \in {synchronize(result.p)}} : TRUE
         : result \in {decl_production(p)}} : TRUE

\* Parser::parse_decl
parse_decl(p) ==
    CHOOSE r \in
        {IF result.ok THEN decl_return(p, result.p, result.v)
         ELSE CHOOSE r1 \in
                  {decl_return(p, p2, Dummy_at(p2))
                   : p2 \in {synchronize([result.p EXCEPT
                                             !.diagnostics = Append(@, result.v)])}} : TRUE
         : result \in {decl_production(p)}} : TRUE

\* Parser::parse_var_decl
parse_var_decl(p) ==
    LET var == consume(p, "Var", S_MUST)
        name == consume_ident(var.p, "Expected variable name")
        eq == take(name.p, "Equal")
    IN  IF ~var.ok THEN var
        ELSE IF ~name.ok THEN name
        ELSE CHOOSE r \in
                 {IF ~init.ok THEN init
                  ELSE LET semi == consume(init.p, "Semicolon",
                                           "Expected ';' after variable declaration")
                       IN  IF ~semi.ok THEN semi
                           ELSE Ok(semi.p, [kind |-> "VarDecl",
                                            span |-> Span_to(var.v.span, semi.v.span),
                                            name |-> name.v, init |-> init.v])
                  : init \in {IF eq.res THEN Some(parse_expr(eq.p))
                              ELSE Ok(eq.p, <<>>)}} : TRUE

\* parse_class_decl's closure: while !is(RightBrace) && !is_at_end() { ... }
class_methods(this, methods) ==
    IF ~is(this, "RightBrace") /\ ~is_at_end(this)
    THEN CHOOSE r \in
             {IF ~m.ok THEN m ELSE class_methods(m.p, Append(methods, m.v))
              : m \in {parse_fn_params_and_body(this, "method")}} : TRUE
    ELSE Ok(this, methods)

\* Parser::parse_class_decl
parse_class_decl(p) ==
    LET class == consume(p, "Class", S_MUST)
        name == consume_ident(class.p, "Expected class name")
    IN  IF ~class.ok THEN class
        ELSE IF ~name.ok THEN name
        ELSE CHOOSE r \in
                 {IF ~body.ok THEN body
                  ELSE Ok(body.p, [kind |-> "ClassDecl",
                                   span |-> Span_to(class.v.span, body.v[2]),
                                   name |-> name.v, methods |-> body.v[1]])
                  : body \in {paired_spanned(name.p, "LeftBrace",
                                             "Expected '{' before class body",
                                             "Expected '}' after class body",
                                             LAMBDA this : class_methods(this, <<>>))}}
                 : TRUE

\* Parser::parse_fun_decl
parse_fun_decl(p) ==
    LET fun == consume(p, "Fun", S_MUST)
    IN  IF ~fun.ok THEN fun
        ELSE CHOOSE r \in
                 {IF ~decl.ok THEN decl
                  ELSE Ok(decl.p, [kind |-> "FunDecl",
                                   span |-> Span_to(fun.v.span, decl.v.span),
                                   decl |-> decl.v])
                  : decl \in {parse_fn_params_and_body(fun.p, "function")}} : TRUE

\* parse_fn_params_and_body's closure: loop { consume_ident; if !take(Comma) break }
fn_params(this, params) ==
    LET param == consume_ident(this, "Expected parameter name")
        comma == take(param.p, "Comma")
    IN  IF ~param.ok THEN param
        ELSE IF comma.res THEN fn_params(comma.p, Append(params, param.v))
        ELSE Ok(comma.p, Append(params, param.v))

\* Parser::parse_fn_params_and_body
parse_fn_params_and_body(p, kind) ==
    LET name == consume_ident(p, <<"Expected ", kind, " name">>)
        params == paired(name.p, "LeftParen",
                         <<"Expected '(' after ", kind, " name">>,
                         <<"Expected ')' after ", kind, " parameter list">>,
                         LAMBDA this : IF ~is(this, "RightParen") THEN fn_params(this, <<>>) ELSE Ok(this, <<>>))
    IN  IF ~name.ok THEN name
        ELSE IF ~params.ok THEN params
        ELSE CHOOSE r \in
                 {IF ~body.ok THEN body
                  ELSE Ok(body.p, [span |-> Span_to(name.v.span, body.v[2]),
                                   name |-> name.v, params |-> params.v,
                                   body |-> body.v[1]])
                  : body \in {parse_block(params.p)}} : TRUE

\* Parser::parse_stmt
parse_stmt(p) ==
    CASE p.current_token.kind = "If" -> parse_if_stmt(p)
      [] p.current_token.kind = "For" -> parse_for_stmt(p)
      [] p.current_token.kind = "While" -> parse_while_stmt(p)
      [] p.current_token.kind = "Return" -> parse_return_stmt(p)
      [] p.current_token.kind = "Print" -> parse_print_stmt(p)
      [] p.current_token.kind = "LeftBrace" ->
            CHOOSE r \in
                {IF ~block.ok THEN block
                 ELSE Ok(block.p, [kind |-> "Block", span |-> block.v[2],
                                   stmts |-> block.v[1]])
                 : block \in {parse_block(p)}} : TRUE
      [] OTHER -> parse_expr_stmt(p)

\* The else clause of parse_if_stmt
parse_else(p) ==
    LET else == take(p, "Else")
    IN  IF else.res THEN Some(parse_stmt(else.p)) ELSE Ok(else.p, <<>>)

\* Parser::parse_if_stmt
parse_if_stmt(p) ==
    LET if == consume(p, "If", S_MUST)
    IN  IF ~if.ok THEN if
        ELSE CHOOSE r \in
    {IF ~cond.ok THEN cond
     ELSE CHOOSE r1 \in
    {IF ~then_branch.ok THEN then_branch
     ELSE CHOOSE r2 \in
    {IF ~else_branch.ok THEN else_branch
     ELSE Ok(else_branch.p,
             [kind |-> "If",
              span |-> Span_to(if.v.span, IF else_branch.v # <<>>
                                          THEN else_branch.v[1].span
                                          ELSE then_branch.v.span),
              cond |-> cond.v,
              then_branch |-> then_branch.v,
              else_branch |-> else_branch.v])
     : else_branch \in {parse_else(then_branch.p)}} : TRUE
     : then_branch \in {parse_stmt(cond.p)}} : TRUE
     : cond \in {paired(if.p, "LeftParen", "Expected 'if' condition group opening",
                        "Expected 'if' condition group to be closed",
                        LAMBDA this : parse_expr(this))}} : TRUE

\* The initializer clause of a for statement
for_init(this) ==
    CASE this.current_token.kind = "Semicolon" -> Ok(advance(this), <<>>)
      [] this.current_token.kind = "Var" -> Some(parse_var_decl(this))
      [] OTHER -> Some(parse_expr_stmt(this))

\* The condition clause of a for statement
for_cond(this) ==
    IF this.current_token.kind = "Semicolon"
    THEN Ok(this, [kind |-> "Lit",
                   span |-> Span_new(this.current_token.span.lo,
                                     this.current_token.span.lo),
                   value |-> [type |-> "Boolean", v |-> <<TRUE>>]])
    ELSE parse_expr(this)

\* The increment clause of a for statement
for_incr(this) ==
    IF this.current_token.kind = "RightParen" THEN Ok(this, <<>>)
    ELSE Some(parse_expr(this))

\* parse_for_stmt's closure; the value is <<init, cond, incr>>.
for_clauses(this) ==
    CHOOSE r \in
    {IF ~init.ok THEN init
     ELSE CHOOSE r1 \in
    {IF ~cond.ok THEN cond
     ELSE LET semi == consume(cond.p, "Semicolon", "Expected ';' after 'for' condition")
          IN  IF ~semi.ok THEN semi
              ELSE CHOOSE r2 \in
    {IF ~incr.ok THEN incr ELSE Ok(incr.p, <<init.v, cond.v, incr.v>>)
     : incr \in {for_incr(semi.p)}} : TRUE
     : cond \in {for_cond(init.p)}} : TRUE
     : init \in {for_init(this)}} : TRUE

\* The increment of a for statement, appended to its body.
for_desugar_incr(body, incr) ==
    IF incr # <<>>
    THEN [kind |-> "Block", span |-> body.span,
          stmts |-> <<body, [kind |-> "Expr", span |-> incr[1].span, expr |-> incr[1]]>>]
    ELSE body

\* The while statement of a for statement.
for_desugar_while(for_token_span, cond, body) ==
    [kind |-> "While", span |-> Span_to(for_token_span, body.span),
     cond |-> cond, body |-> body]

\* The initializer of a for statement, put before its while statement.
for_desugar_init(init, body) ==
    IF init # <<>>
    THEN [kind |-> "Block", span |-> body.span, stmts |-> <<init[1], body>>]
    ELSE body

\* parse_for_stmt that puts the increment before the body
parse_for_stmt_incr_first(p) ==
    LET for == consume(p, "For", S_MUST)
    IN  IF ~for.ok THEN for
        ELSE CHOOSE r \in
    {IF ~clauses.ok THEN clauses
     ELSE CHOOSE r1 \in
    {IF ~body.ok THEN body
     ELSE Ok(body.p,
             for_desugar_init(clauses.v[1],
                 for_desugar_while(for.v.span, clauses.v[2],
                     IF clauses.v[3] # <<>>
                     THEN [kind |-> "Block", span |-> body.v.span,
                           stmts |-> <<[kind |-> "Expr", span |-> clauses.v[3][1].span,
                                        expr |-> clauses.v[3][1]], body.v>>]
                     ELSE body.v)))
     : body \in {parse_stmt(clauses.p)}} : TRUE
     : clauses \in {paired(for.p, "LeftParen", "Expected 'for' clauses group opening",
                           "Expected 'for' clauses group to be closed",
                           LAMBDA this : for_clauses(this))}} : TRUE

\* Parser::parse_for_stmt
parse_for_stmt(p) ==
    LET for == consume(p, "For", S_MUST)
    IN  IF ~for.ok THEN for
        ELSE CHOOSE r \in
    {IF ~clauses.ok THEN clauses
     ELSE CHOOSE r1 \in
    {IF ~body.ok THEN body
     ELSE Ok(body.p,
             for_desugar_init(clauses.v[1],
                 for_desugar_while(for.v.span, clauses.v[2],
                     for_desugar_incr(body.v, clauses.v[3]))))
     : body \in {parse_stmt(clauses.p)}} : TRUE
     : clauses \in {paired(for.p, "LeftParen", "Expected 'for' clauses group opening",
                           "Expected 'for' clauses group to be closed",
                           LAMBDA this : for_clauses(this))}} : TRUE

\* Parser::parse_while_stmt
parse_while_stmt(p) ==
    LET while == consume(p, "While", S_MUST)
    IN  IF ~while.ok THEN while
        ELSE CHOOSE r \in
    {IF ~cond.ok THEN cond
     ELSE CHOOSE r1 \in
    {IF ~body.ok THEN body
     ELSE Ok(body.p, [kind |-> "While", span |-> Span_to(while.v.span, body.v.span),
                      cond |-> cond.v, body |-> body.v])
     : body \in {parse_stmt(cond.p)}} : TRUE
     : cond \in {paired(while.p, "LeftParen", "Expected 'while' condition group opening",
                        "Expected 'while' condition group to be closed",
                        LAMBDA this : parse_expr(this))}} : TRUE

\* Parser::parse_return_stmt
parse_return_stmt(p) ==
    LET return == consume(p, "Return", S_MUST)
    IN  IF ~return.ok THEN return
        ELSE CHOOSE r \in
    {IF ~value.ok THEN value
     ELSE LET semi == consume(value.p, "Semicolon", "Expected ';' after return")
          IN  IF ~semi.ok THEN semi
              ELSE Ok(semi.p, [kind |-> "Return",
                               span |-> Span_to(return.v.span, semi.v.span),
                               value |-> value.v, return_span |-> return.v.span])
     : value \in {IF ~is(return.p, "Semicolon") THEN Some(parse_expr(return.p))
                  ELSE Ok(return.p, <<>>)}} : TRUE

\* Parser::parse_print_stmt
parse_print_stmt(p) ==
    LET print == consume(p, "Print", S_MUST)
    IN  IF ~print.ok THEN print
        ELSE CHOOSE r \in
    {IF ~expr.ok THEN expr
     ELSE LET semi == consume(expr.p, "Semicolon", "Expected ';' after value")
          IN  IF ~semi.ok THEN semi
              ELSE Ok(semi.p, [kind |-> "Print",
                               span |-> Span_to(print.v.span, semi.v.span),
                               expr |-> expr.v, debug |-> FALSE])
     : expr \in {parse_expr(print.p)}} : TRUE

\* parse_block's closure: while !is(RightBrace) && !is_at_end() { parse_decl }
block_stmts(this, acc) ==
    IF ~is(this, "RightBrace") /\ ~is_at_end(this) /\ ~this.panicked
    THEN CHOOSE r \in {block_stmts(d.p, Append(acc, d.stmt))
                       : d \in {parse_decl(this)}} : TRUE
    ELSE Ok(this, acc)

\* Parser::parse_block; the value is <<stmts, span>>.
parse_block(p) ==
    paired_spanned(p, "LeftBrace", "Expected block to be opened",
                   "Expected block to be closed", LAMBDA this : block_stmts(this, <<>>))

\* Parser::parse_expr_stmt
parse_expr_stmt(p) ==
    CHOOSE r \in
    {IF ~expr.ok THEN expr
     ELSE IF expr.p.options.repl_mode /\ is_at_end(expr.p)
     THEN Ok(expr.p, [kind |-> "Print", span |-> expr.v.span, expr |-> expr.v,
                      debug |-> TRUE])
     ELSE LET semi == consume(expr.p, "Semicolon", "Expected ';' after expression")
          IN  IF ~semi.ok THEN semi
              ELSE Ok(semi.p, [kind |-> "Expr",
                               span |-> Span_to(expr.v.span, semi.v.span),
                               expr |-> expr.v])
     : expr \in {parse_expr(p)}} : TRUE

\* Parser::parse_expr
parse_expr(p) == parse_assignment(p)

\* assignment_target that drops a left side that is no target
assignment_target_lenient(left, value) ==
    CASE left.kind = "Var" ->
            Ok(value.p, [kind |-> "Assignment", span |-> Span_to(left.span, value.v.span),
                         name |-> left.name, value |-> value.v])
      [] left.kind = "Get" ->
            Ok(value.p, [kind |-> "Set", span |-> Span_to(left.span, value.v.span),
                         object |-> left.object, name |-> left.name, value |-> value.v])
      [] OTHER -> Ok(value.p, value.v)

\* parse_assignment once the value is parsed: left becomes an assignment target.
assignment_target(left, value) ==
    CASE left.kind = "Var" ->
            Ok(value.p, [kind |-> "Assignment", span |-> Span_to(left.span, value.v.span),
                         name |-> left.name, value |-> value.v])
      [] left.kind = "Get" ->
            Ok(value.p, [kind |-> "Set", span |-> Span_to(left.span, value.v.span),
                         object |-> left.object, name |-> left.name, value |-> value.v])
      [] OTHER ->
            Err(value.p, [kind |-> "Error", message |-> "Invalid assignment target",
                          span |-> left.span])

\* Parser::parse_assignment
parse_assignment(p) ==
    CHOOSE r \in
    {IF ~left.ok THEN left
     ELSE IF ~is(left.p, "Equal") THEN left
     ELSE CHOOSE r1 \in
    {IF ~value.ok THEN value ELSE assignment_target(left.v, value)
     : value \in {parse_assignment(advance(left.p))}} : TRUE
     : left \in {parse_or(p)}} : TRUE

\* bin_expr!: while let kinds = current_token.kind { ... }
bin_expr_loop(p, expr, ast_kind, token_kinds, next) ==
    IF p.current_token.kind \in token_kinds /\ ~p.panicked
    THEN CHOOSE r \in
    {CHOOSE r1 \in
    {IF ~right.ok THEN right
     ELSE bin_expr_loop(right.p,
                        [kind |-> ast_kind, span |-> Span_to(expr.span, right.v.span),
                         left |-> expr, operator |-> p1.prev_token, right |-> right.v],
                        ast_kind, token_kinds, next)
     : right \in {next_production(p1, next)}} : TRUE
     : p1 \in {advance(p)}} : TRUE
    ELSE Ok(p, expr)

\* The productions the bin_expr! macro is instantiated with as next_production.
next_production(p, next) ==
    CASE next = "parse_and" -> parse_and(p)
      [] next = "parse_equality" -> parse_equality(p)
      [] next = "parse_comparison" -> parse_comparison(p)
      [] next = "parse_term" -> parse_term(p)
      [] next = "parse_factor" -> parse_factor(p)
      [] next = "parse_unary" -> parse_unary(p)

\* Parser::parse_or
parse_or(p) ==
    CHOOSE r \in
    {IF ~expr.ok THEN expr
     ELSE bin_expr_loop(expr.p, expr.v, "Logical", {"Or"}, "parse_and")
     : expr \in {parse_and(p)}} : TRUE

\* Parser::parse_and
parse_and(p) ==
    CHOOSE r \in
    {IF ~expr.ok THEN expr
     ELSE bin_expr_loop(expr.p, expr.v, "Logical", {"And"}, "parse_equality")
     : expr \in {parse_equality(p)}} : TRUE

\* Parser::parse_equality
parse_equality(p) ==
    CHOOSE r \in
    {IF ~expr.ok THEN expr
     ELSE bin_expr_loop(expr.p, expr.v, "Binary", {"EqualEqual", "BangEqual"},
                        "parse_comparison")
     : expr \in {parse_comparison(p)}} : TRUE

\* Parser::parse_comparison
parse_comparison(p) ==
    CHOOSE r \in
    {IF ~expr.ok THEN expr
     ELSE bin_expr_loop(expr.p, expr.v, "Binary",
                        {"Greater", "GreaterEqual", "Less", "LessEqual"}, "parse_term")
     : expr \in {parse_term(p)}} : TRUE

\* Parser::parse_term
parse_term(p) ==
    CHOOSE r \in
    {IF ~expr.ok THEN expr
     ELSE bin_expr_loop(expr.p, expr.v, "Binary", {"Plus", "Minus"}, "parse_factor")
     : expr \in {parse_factor(p)}} : TRUE

\* Parser::parse_factor
parse_factor(p) ==
    CHOOSE r \in
    {IF ~expr.ok THEN expr
     ELSE bin_expr_loop(expr.p, expr.v, "Binary", {"Star", "Slash"}, "parse_unary")
     : expr \in {parse_unary(p)}} : TRUE

\* Parser::parse_unary
parse_unary(p) ==
    IF p.current_token.kind \in {"Bang", "Minus", "Typeof", "Show"} /\ ~p.panicked
    THEN CHOOSE r \in
    {CHOOSE r1 \in
    {IF ~operand.ok THEN operand
     ELSE Ok(operand.p, [kind |-> "Unary",
                         span |-> Span_to(p1.prev_token.span, operand.v.span),
                         operator |-> p1.prev_token, operand |-> operand.v])
     : operand \in {parse_unary(p1)}} : TRUE
     : p1 \in {advance(p)}} : TRUE
    ELSE parse_call_or_get(p)

\* parse_call_or_get's loop
call_or_get_loop(p, expr) ==
    IF p.panicked THEN Ok(p, expr)
    ELSE IF p.current_token.kind = "LeftParen"
    THEN CHOOSE r \in
             {IF ~call.ok THEN call ELSE call_or_get_loop(call.p, call.v)
              : call \in {finish_call_parsing(p, expr)}} : TRUE
    ELSE IF p.current_token.kind = "Dot"
    THEN LET name == consume_ident(advance(p), "Expect property name after '.'")
         IN  IF ~name.ok THEN name
             ELSE call_or_get_loop(name.p, [kind |-> "Get",
                                            span |-> Span_to(expr.span, name.v.span),
                                            object |-> expr, name |-> name.v])
    ELSE Ok(p, expr)

\* Parser::parse_call_or_get
parse_call_or_get(p) ==
    CHOOSE r \in
    {IF ~expr.ok THEN expr ELSE call_or_get_loop(expr.p, expr.v)
     : expr \in {parse_primary(p)}} : TRUE

\* finish_call_parsing's closure: loop { parse_expr; if !take(Comma) break }
call_args(this, args) ==
    CHOOSE r \in
    {IF ~arg.ok THEN arg
     ELSE IF is(arg.p, "Comma") THEN call_args(advance(arg.p), Append(args, arg.v))
     ELSE Ok(arg.p, Append(args, arg.v))
     : arg \in {parse_expr(this)}} : TRUE

\* Parser::finish_call_parsing
finish_call_parsing(p, curr_expr) ==
    CHOOSE r \in
    {IF ~call.ok THEN call
     ELSE Ok(IF Len(call.v[1]) >= 255
             THEN [call.p EXCEPT !.diagnostics =
                      Append(@, [kind |-> "Error",
                                 message |-> "Call can't have more than 255 arguments",
                                 span |-> call.v[2]])]
             ELSE call.p,
             [kind |-> "Call", span |-> Span_to(curr_expr.span, call.v[2]),
              callee |-> curr_expr, args |-> call.v[1]])
     : call \in {paired_spanned(p, "LeftParen", S_MUST,
                                "Expected ')' to close call syntax",
                                LAMBDA this : IF ~is(this, "RightParen") THEN call_args(this, <<>>) ELSE Ok(this, <<>>))}} : TRUE

\* Parser::parse_primary
parse_primary(p) ==
    CASE p.current_token.kind \in {"String", "Number", "True", "False", "Nil"} ->
            Ok(advance(p), [kind |-> "Lit", span |-> p.current_token.span,
                            value |-> Lit_from(p.current_token).value])
      [] p.current_token.kind = "Identifier" ->
            LET name == consume_ident(p, S_MUST)
            IN  IF ~name.ok THEN name
                ELSE Ok(name.p, [kind |-> "Var", span |-> name.v.span, name |-> name.v])
      [] p.current_token.kind = "LeftParen" ->
            CHOOSE r \in
            {IF ~group.ok THEN group
             ELSE Ok(group.p, [kind |-> "Group", span |-> group.v[2], expr |-> group.v[1]])
             : group \in {paired_spanned(p, "LeftParen", S_MUST,
                                         "Expected group to be closed",
                                         LAMBDA this : parse_expr(this))}} : TRUE
      [] OTHER -> Err(p, unexpected(p, "Expected any expression", <<>>))

\* Parser::new over the items the scanner yields; the REPL sets options.repl_mode.
Parser_new(items, repl_mode) ==
    advance([scanner |-> [items |-> items, next |-> 1],
             current_token |-> Token_dummy,
             prev_token |-> Token_dummy,
             diagnostics |-> <<>>,
             options |-> [repl_mode |-> repl_mode],
             ast_id_seq |-> 0,
             advances |-> 0,
             stalled |-> FALSE,
             panicked |-> FALSE])

RECURSIVE parse_program(_, _)
\* Parser::parse_program
parse_program(p, acc) ==
    IF ~is_at_end(p) /\ ~p.panicked
    THEN CHOOSE r \in {parse_program(d.p, Append(acc, d.stmt))
                       : d \in {parse_decl(p)}} : TRUE
    ELSE [p |-> p, stmts |-> acc]

\* Parser::parse; the outcome is <<stmts, diagnostics>>.
parse(p) ==
    CHOOSE r \in {<<done.stmts, done.p.diagnostics>>
                  : done \in {parse_program(p, <<>>)}} : TRUE

\* parse_program: one turn of the loop, a call of parse_decl.
ParseDecl ==
    /\ Len(outcome) = 0
    /\ ~is_at_end(parser) /\ ~parser.panicked
    /\ \E d \in {parse_decl(parser)} :
           /\ parser' = d.p
           /\ stmts' = Append(stmts, d.stmt)
    /\ UNCHANGED outcome
    /\ UNCHANGED <<scanVars, pipeline>>

\* parse_program leaves the loop and Parser::parse returns.
ParseReturn ==
    /\ Len(outcome) = 0
    /\ is_at_end(parser)
    /\ outcome' = <<stmts, parser.diagnostics>>
    /\ UNCHANGED <<parser, stmts>>
    /\ UNCHANGED <<scanVars, pipeline>>

\* ------------------------------------------------ parser token streams

TK(kind) == [kind |-> kind, val |-> <<>>]

Ident(name) == [kind |-> "Identifier", val |-> <<name>>]

Num(n) == [kind |-> "Number", val |-> <<n, 0>>]

\* The pieces of program text the token streams are built from.
Fragments ==
    { <<TK("Var"), Ident("a"), TK("Equal"), Num(1), TK("Semicolon")>>,
      <<Ident("a"), TK("Equal"), Num(1)>>,
      <<TK("Semicolon")>>,
      <<TK("LeftBrace")>>,
      <<TK("RightBrace")>>,
      <<TK("Fun"), Ident("f"), TK("LeftParen"), Ident("a"), TK("RightParen"),
        TK("LeftBrace")>>,
      <<TK("Class"), Ident("C"), TK("LeftBrace"), Ident("m"), TK("LeftParen"),
        TK("RightParen"), TK("LeftBrace")>>,
      <<TK("Print")>>,
      <<TK("LeftParen")>>,
      <<TK("RightParen")>>,
      <<Num(1)>>,
      <<[kind |-> "Error", val |-> <<"UnexpectedChar", "#">>]>>,
      <<TK("For"), TK("LeftParen"), TK("Semicolon"), TK("Semicolon")>>,
      <<TK("If"), TK("LeftParen"), Ident("a"), TK("RightParen")>>,
      <<TK("Dot"), Ident("b")>>,
      <<TK("Return")>> }

RECURSIVE FragmentStrings(_)
\* Every concatenation of at most n fragments.
FragmentStrings(n) ==
    IF n = 0 THEN {<<>>}
    ELSE LET shorter == FragmentStrings(n - 1)
         IN  shorter \cup {s \o f : s \in shorter, f \in Fragments}

\* The items the scanner yields for a token string: token i spans bytes
\* 2(i-1) .. 2(i-1)+1, and Eof comes last with an empty span at the end.
ScannerItems(ts) ==
    [i \in 1..(Len(ts) + 1) |->
        IF i <= Len(ts)
        THEN [kind |-> ts[i].kind, val |-> ts[i].val, span |-> Span_new(2 * (i - 1), 2 * i - 1)]
        ELSE [kind |-> "Eof", val |-> <<>>, span |-> Span_new(2 * Len(ts), 2 * Len(ts))]]

\* The values of ScanError; the character of UnexpectedChar is `#`.
ScanErrors == {<<"UnexpectedChar", "#">>, <<"UnterminatedString">>, <<"InvalidNumberLiteral">>}

\* The scan errors a token string's last item can carry: an unterminated string
\* runs to the end of the source, so only the last item can be one.
LastErrors(ts) ==
    IF Len(ts) > 0 /\ ts[Len(ts)].kind = "Error" THEN ScanErrors
    ELSE {<<"UnexpectedChar", "#">>}

\* The token string with `error` as the error of its last item, if it is one.
WithLastError(ts, error) ==
    [i \in 1..Len(ts) |->
        IF i = Len(ts) /\ ts[i].kind = "Error" THEN [ts[i] EXCEPT !.val = error]
        ELSE ts[i]]

\* The delimiters open after the first i tokens of a token string.
OpenDelimiters(ts, i) ==
    Cardinality({j \in 1..i : ts[j].kind \in {"LeftParen", "LeftBrace"}})
        - Cardinality({j \in 1..i : ts[j].kind \in {"RightParen", "RightBrace"}})

\* The token strings that never have more than MaxDepth delimiters open.
TokenStrings ==
    {ts \in FragmentStrings(MaxFragments) :
        \A i \in 1..Len(ts) : OpenDelimiters(ts, i) <= MaxDepth}

\* `1 = 1; #`: an invalid assignment target, then a scan error.
ErrorStrings ==
    { <<Num(1), TK("Equal"), Num(1), TK("Semicolon"),
        [kind |-> "Error", val |-> <<"UnexpectedChar", "#">>]>> }

\* The for statements: the initializer is omitted, `var a = 1;` or `1;`, the
\* condition omitted or `2`, the increment omitted or `3`, the body `4;` or {}.
ForClauses ==
    [init : {"none", "var", "expr"}, cond : BOOLEAN, incr : BOOLEAN,
     body : {"expr", "block"}]

\* for (INIT COND; INCR) BODY
ForTokens(for) ==
    <<TK("For"), TK("LeftParen")>>
    \o (CASE for.init = "none" -> <<TK("Semicolon")>>
          [] for.init = "var" ->
                <<TK("Var"), Ident("a"), TK("Equal"), Num(1), TK("Semicolon")>>
          [] for.init = "expr" -> <<Num(1), TK("Semicolon")>>)
    \o (IF for.cond THEN <<Num(2)>> ELSE <<>>)
    \o <<TK("Semicolon")>>
    \o (IF for.incr THEN <<Num(3)>> ELSE <<>>)
    \o <<TK("RightParen")>>
    \o (IF for.body = "expr" THEN <<Num(4), TK("Semicolon")>>
        ELSE <<TK("LeftBrace"), TK("RightBrace")>>)

ForStrings == {ForTokens(for) : for \in ForClauses}

\* Malformed declarations followed by well-formed ones:
\*   1 + ; var a = 1;          ) 1 2 print 3; ) ;          { 1 + ; print 3; }
RecoveryStrings ==
    { <<Num(1), TK("Plus"), TK("Semicolon"),
        TK("Var"), Ident("a"), TK("Equal"), Num(1), TK("Semicolon")>>,
      <<TK("RightParen"), Num(1), Num(2), TK("Print"), Num(3), TK("Semicolon"),
        TK("RightParen"), TK("Semicolon")>>,
      <<TK("LeftBrace"), Num(1), TK("Plus"), TK("Semicolon"),
        TK("Print"), Num(3), TK("Semicolon"), TK("RightBrace")>> }

\* The left sides of an assignment:
\*   a   a.b   a().b   1   nil   (a)   a()   -a   !a   a + b   a == b   a < b
\*   a or b   a and b
AssignmentTargets ==
    [var |-> <<Ident("a")>>,
     get |-> <<Ident("a"), TK("Dot"), Ident("b")>>,
     get_of_call |-> <<Ident("a"), TK("LeftParen"), TK("RightParen"), TK("Dot"), Ident("b")>>,
     number |-> <<Num(1)>>,
     nil |-> <<TK("Nil")>>,
     grouping |-> <<TK("LeftParen"), Ident("a"), TK("RightParen")>>,
     call |-> <<Ident("a"), TK("LeftParen"), TK("RightParen")>>,
     minus |-> <<TK("Minus"), Ident("a")>>,
     bang |-> <<TK("Bang"), Ident("a")>>,
     plus |-> <<Ident("a"), TK("Plus"), Ident("b")>>,
     equal |-> <<Ident("a"), TK("EqualEqual"), Ident("b")>>,
     less |-> <<Ident("a"), TK("Less"), Ident("b")>>,
     or |-> <<Ident("a"), TK("Or"), Ident("b")>>,
     and |-> <<Ident("a"), TK("And"), Ident("b")>>]

\* TARGET = 1; and the chain TARGET = b = c;
AssignmentTokens(target, chain) ==
    AssignmentTargets[target] \o <<TK("Equal")>>
        \o (IF chain THEN <<Ident("b"), TK("Equal"), Ident("c")>> ELSE <<Num(1)>>)
        \o <<TK("Semicolon")>>

\* The assignments, and a = 1 = 2; whose inner left side is no target.
AssignmentStrings ==
    {AssignmentTokens(target, chain) : target \in DOMAIN AssignmentTargets,
                                       chain \in BOOLEAN}
        \cup { <<Ident("a"), TK("Equal"), Num(1), TK("Equal"), Num(2), TK("Semicolon")>> }

\* The token strings Parser::parse is run on.
ParseStrings ==
    TokenStrings \cup ErrorStrings \cup ForStrings \cup RecoveryStrings
        \cup AssignmentStrings

ParseInit ==
    /\ impl = "none" /\ source = <<>> /\ scanner = <<>> /\ tokens = <<>>
    /\ exhausted = TRUE
    /\ \E ts \in ParseStrings, repl_mode \in BOOLEAN :
           \E error \in LastErrors(ts) :
               parser = Parser_new(ScannerItems(WithLastError(ts, error)), repl_mode)
    /\ stmts = <<>>
    /\ outcome = <<>>
    /\ pipeline = <<>>

ParseNext == ParseDecl \/ ParseReturn

SpecParse == ParseInit /\ [][ParseNext]_vars

\* ----------------------------------------------- tree-lox/src/resolver.rs
\* A HashMap is a function on its keys; <<>> is the empty map. Names are the
\* character sequences the identifier tokens carry.

\* HashMap::insert
Insert(map, key, value) ==
    [k \in DOMAIN map \cup {key} |-> IF k = key THEN value ELSE map[k]]

\* The names "this", "super", "init" and "clock".
THIS == <<"t", "h", "i", "s">>

SUPER == <<"s", "u", "p", "e", "r">>

INIT == <<"i", "n", "i", "t">>

CLOCK == <<"c", "l", "o", "c", "k">>

\* Resolver::new; the resolver writes the interpreter's locals.
Resolver_new(locals) ==
    [locals |-> locals,
     state |-> [function |-> "None", class |-> "None"],
     scopes |-> <<>>,
     errors |-> <<>>,
     panicked |-> FALSE]

\* Resolver::error
Resolver_error(R, span, message) ==
    [R EXCEPT !.errors = Append(@, [span |-> span, message |-> message])]

\* declare that takes a second declaration of a name as the first
declare_again(R, ident) ==
    IF R.scopes # <<>>
    THEN [R EXCEPT !.scopes[Len(R.scopes)] = Insert(@, ident.name, "Declared")]
    ELSE R

\* Resolver::declare
declare(R, ident) ==
    IF R.scopes # <<>>
    THEN IF ident.name \notin DOMAIN R.scopes[Len(R.scopes)]
         THEN [R EXCEPT !.scopes[Len(R.scopes)] = Insert(@, ident.name, "Declared")]
         ELSE Resolver_error(R, ident.span, "Can't shadow a identifier in the same scope")
    ELSE R

\* Resolver::define
define(R, ident) ==
    IF R.scopes # <<>>
    THEN IF ident.name \in DOMAIN R.scopes[Len(R.scopes)]
         THEN [R EXCEPT !.scopes[Len(R.scopes)][ident.name] = "Initialized"]
         ELSE Resolver_error(R, ident.span, <<"Binding '", ident.name, "' is not defined">>)
    ELSE R

\* Resolver::initialize
initialize(R, name) ==
    [R EXCEPT !.scopes[Len(R.scopes)] = Insert(@, name, "Initialized")]

\* query that looks for an initialized binding, whatever state is asked for
query_initialized(R, ident, expected) ==
    /\ R.scopes # <<>>
    /\ ident.name \in DOMAIN R.scopes[Len(R.scopes)]
    /\ R.scopes[Len(R.scopes)][ident.name] = "Initialized"

\* Resolver::query
query(R, ident, expected) ==
    /\ R.scopes # <<>>
    /\ ident.name \in DOMAIN R.scopes[Len(R.scopes)]
    /\ R.scopes[Len(R.scopes)][ident.name] = expected

\* Interpreter::resolve_local
resolve_local(locals, ident, depth) == Insert(locals, ident.id, depth)

\* resolve_binding that counts the depth from the outermost scope
resolve_binding_from_outside(R, ident) ==
    LET found == {depth \in 0..(Len(R.scopes) - 1) :
                     ident.name \in DOMAIN R.scopes[Len(R.scopes) - depth]}
    IN  IF found # {}
        THEN [R EXCEPT !.locals =
                 resolve_local(@, ident,
                               Len(R.scopes) - 1
                                   - CHOOSE depth \in found :
                                         \A other \in found : depth <= other)]
        ELSE R

\* Resolver::resolve_binding
resolve_binding(R, ident) ==
    LET found == {depth \in 0..(Len(R.scopes) - 1) :
                     ident.name \in DOMAIN R.scopes[Len(R.scopes) - depth]}
    IN  IF found # {}
        THEN [R EXCEPT !.locals =
                 resolve_local(@, ident, CHOOSE depth \in found :
                                             \A other \in found : depth <= other)]
        ELSE R

\* Resolver::begin_scope
begin_scope(R) == [R EXCEPT !.scopes = Append(@, <<>>)]

\* Resolver::end_scope
end_scope(R) == [R EXCEPT !.scopes = SubSeq(@, 1, Len(@) - 1)]

RECURSIVE resolve_stmts(_, _, _), resolve_stmt(_, _), resolve_expr(_, _)
RECURSIVE resolve_function(_, _, _), resolve_params(_, _, _), resolve_methods(_, _, _)
RECURSIVE resolve_args(_, _, _)

\* Resolver::resolve_stmts, from the i-th statement on
resolve_stmts(R, list, i) ==
    IF i > Len(list) THEN R
    ELSE CHOOSE r \in {resolve_stmts(R1, list, i + 1)
                       : R1 \in {resolve_stmt(R, list[i])}} : TRUE

\* resolve_function's loop: for param in &decl.params { declare; define }
resolve_params(R, params, i) ==
    IF i > Len(params) THEN R
    ELSE CHOOSE r \in {resolve_params(R1, params, i + 1)
                       : R1 \in {define(declare(R, params[i]), params[i])}} : TRUE

\* resolve_function that leaves its function state in force after the body
resolve_function_keeps_state(R, decl, state) ==
    CHOOSE r \in
    {CHOOSE r1 \in
    {end_scope(R2)
     : R2 \in {resolve_stmts(R1, decl.body, 1)}} : TRUE
     : R1 \in {resolve_params(begin_scope([R EXCEPT !.state.function = state]),
                              decl.params, 1)}} : TRUE

\* Resolver::resolve_function
resolve_function(R, decl, state) ==
    CHOOSE r \in
    {CHOOSE r1 \in
    {[end_scope(R2) EXCEPT !.state.function = R.state.function]
     : R2 \in {resolve_stmts(R1, decl.body, 1)}} : TRUE
     : R1 \in {resolve_params(begin_scope([R EXCEPT !.state.function = state]),
                              decl.params, 1)}} : TRUE

\* resolve_stmt's loop over the methods of a class
resolve_methods(R, methods, i) ==
    IF i > Len(methods) THEN R
    ELSE CHOOSE r \in
             {resolve_methods(R1, methods, i + 1)
              : R1 \in {resolve_function(R, methods[i],
                                         IF methods[i].name.name = INIT
                                         THEN "Init" ELSE "Method")}} : TRUE

\* resolve_super_name that leaves the class state at Class
resolve_super_name_as_class(R, class) ==
    IF "super_name" \in DOMAIN class /\ class.super_name # <<>>
    THEN LET super_name == class.super_name[1]
             R1 == IF class.name.name = super_name.name
                   THEN Resolver_error(R, super_name.span, "Class can't inherit itself")
                   ELSE R
         IN  initialize(begin_scope(resolve_binding(R1, super_name)), SUPER)
    ELSE R

\* The super-class part of resolve_stmt's ClassDecl arm
resolve_super_name(R, class) ==
    IF "super_name" \in DOMAIN class /\ class.super_name # <<>>
    THEN LET super_name == class.super_name[1]
             R1 == IF class.name.name = super_name.name
                   THEN Resolver_error(R, super_name.span, "Class can't inherit itself")
                   ELSE R
         IN  initialize(begin_scope(resolve_binding([R1 EXCEPT !.state.class = "SubClass"],
                                                    super_name)),
                        SUPER)
    ELSE R

\* The check of the Return arm of resolve_stmt
resolve_return(R, return_stmt) ==
    LET R1 == IF R.state.function = "None"
              THEN Resolver_error(R, return_stmt.return_span, "Illegal return statement")
              ELSE R
    IN  IF return_stmt.value # <<>> /\ R1.state.function = "Init"
        THEN Resolver_error(R1, return_stmt.return_span,
                            "Can't return value from class initializer")
        ELSE R1

\* Resolver::resolve_stmt
resolve_stmt(R, stmt) ==
    CASE stmt.kind = "VarDecl" ->
            IF stmt.init # <<>>
            THEN CHOOSE r \in {define(R1, stmt.name)
                               : R1 \in {resolve_expr(declare(R, stmt.name),
                                                      stmt.init[1])}} : TRUE
            ELSE define(declare(R, stmt.name), stmt.name)
      [] stmt.kind = "ClassDecl" ->
            CHOOSE r \in
            {CHOOSE r1 \in
            {[(IF "super_name" \in DOMAIN stmt /\ stmt.super_name # <<>>
               THEN end_scope(end_scope(R2)) ELSE end_scope(R2))
              EXCEPT !.state.class = R.state.class]
             : R2 \in {resolve_methods(initialize(begin_scope(R1), THIS),
                                       stmt.methods, 1)}} : TRUE
             : R1 \in {resolve_super_name(
                           define(declare([R EXCEPT !.state.class = "Class"], stmt.name),
                                  stmt.name),
                           stmt)}} : TRUE
      [] stmt.kind = "FunDecl" ->
            resolve_function(define(declare(R, stmt.decl.name), stmt.decl.name),
                             stmt.decl, "Function")
      [] stmt.kind = "If" ->
            CHOOSE r \in
            {CHOOSE r1 \in
            {IF stmt.else_branch # <<>> THEN resolve_stmt(R2, stmt.else_branch[1]) ELSE R2
             : R2 \in {resolve_stmt(R1, stmt.then_branch)}} : TRUE
             : R1 \in {resolve_expr(R, stmt.cond)}} : TRUE
      [] stmt.kind = "While" ->
            CHOOSE r \in {resolve_stmt(R1, stmt.body)
                          : R1 \in {resolve_expr(R, stmt.cond)}} : TRUE
      [] stmt.kind = "Return" ->
            IF stmt.value # <<>>
            THEN CHOOSE r \in {resolve_expr(R1, stmt.value[1])
                               : R1 \in {resolve_return(R, stmt)}} : TRUE
            ELSE resolve_return(R, stmt)
      [] stmt.kind = "Print" -> resolve_expr(R, stmt.expr)
      [] stmt.kind = "Block" ->
            CHOOSE r \in {end_scope(R1)
                          : R1 \in {resolve_stmts(begin_scope(R), stmt.stmts, 1)}} : TRUE
      [] stmt.kind = "Expr" -> resolve_expr(R, stmt.expr)
      [] stmt.kind = "Dummy" -> [R EXCEPT !.panicked = TRUE]

\* The loop of the Call arm of resolve_expr
resolve_args(R, args, i) ==
    IF i > Len(args) THEN R
    ELSE CHOOSE r \in {resolve_args(R1, args, i + 1)
                       : R1 \in {resolve_expr(R, args[i])}} : TRUE

\* Resolver::resolve_expr
resolve_expr(R, expr) ==
    CASE expr.kind = "Lit" -> R
      [] expr.kind = "This" ->
            resolve_binding(IF R.state.class = "None"
                            THEN Resolver_error(R, expr.span,
                                     "Illegal this expression, can't use this outside of a class")
                            ELSE R,
                            expr.name)
      [] expr.kind = "Super" ->
            resolve_binding(
                IF R.state.class = "None"
                THEN Resolver_error(R, expr.super_ident.span,
                         "Illegal super expression, can't use super outside of a class")
                ELSE IF R.state.class = "Class"
                THEN Resolver_error(R, expr.super_ident.span,
                         "Illegal super expression, can't use super within a class with no superclass")
                ELSE R,
                expr.super_ident)
      [] expr.kind = "Var" ->
            IF query(R, expr.name, "Declared")
            THEN Resolver_error(R, expr.name.span,
                                "Can't read local variable in its own initializer")
            ELSE resolve_binding(R, expr.name)
      [] expr.kind = "Group" -> resolve_expr(R, expr.expr)
      [] expr.kind = "Get" -> resolve_expr(R, expr.object)
      [] expr.kind = "Set" ->
            CHOOSE r \in {resolve_expr(R1, expr.value)
                          : R1 \in {resolve_expr(R, expr.object)}} : TRUE
      [] expr.kind = "Call" ->
            CHOOSE r \in {resolve_args(R1, expr.args, 1)
                          : R1 \in {resolve_expr(R, expr.callee)}} : TRUE
      [] expr.kind = "Unary" -> resolve_expr(R, expr.operand)
      [] expr.kind \in {"Binary", "Logical"} ->
            CHOOSE r \in {resolve_expr(R1, expr.right)
                          : R1 \in {resolve_expr(R, expr.left)}} : TRUE
      [] expr.kind = "Assignment" ->
            CHOOSE r \in {resolve_binding(R1, expr.name)
                          : R1 \in {resolve_expr(R, expr.value)}} : TRUE

\* Resolver::resolve; the value is <<ok, errors>> and the interpreter's locals.
\* panicked says that the unreachable!() of the Dummy arm was met.
resolve(R, list) ==
    CHOOSE r \in {[ok |-> R1.errors = <<>>, errors |-> R1.errors, locals |-> R1.locals,
                   panicked |-> R1.panicked]
                  : R1 \in {resolve_stmts(R, list, 1)}} : TRUE

\* ------------------------------------------------- src/data.rs: LoxValue
\* A LoxValue is [type, v], as the literals of the parser are. The v of a
\* Function is its callable, a record with the Rc allocation rc that
\* Rc::ptr_eq compares; the v of an Object is the index of its instance in the
\* interpreter's instances. Text is a sequence of characters.

LoxValue_Nil == [type |-> "Nil", v |-> <<>>]

LoxValue_Boolean(b) == [type |-> "Boolean", v |-> <<b>>]

LoxValue_Number(n) == [type |-> "Number", v |-> n]

LoxValue_String(s) == [type |-> "String", v |-> s]

LoxValue_Function(callable) == [type |-> "Function", v |-> callable]

LoxValue_Object(instance) == [type |-> "Object", v |-> instance]

\* LoxValue::type_name
type_name(value) ==
    CASE value.type = "Function" -> <<"f", "u", "n", "c", "t", "i", "o", "n">>
      [] value.type = "Object" -> <<"o", "b", "j", "e", "c", "t">>
      [] value.type = "Boolean" -> <<"b", "o", "o", "l", "e", "a", "n">>
      [] value.type = "Number" -> <<"n", "u", "m", "b", "e", "r">>
      [] value.type = "String" -> <<"s", "t", "r", "i", "n", "g">>
      [] value.type = "Nil" -> <<"n", "i", "l">>

\* The characters the programs' text is written in, in the order of their codes.
Ascii ==
    <<"NUL", "\n", " ", "!", "\"", "(", ")", "*", "+", ",", "-", ".", "/",
      "0", "1", "2", "3", "4", "5", "6", "7", "8", "9", ":", ";", "<", "=", ">",
      "A", "B", "C", "D", "E", "F", "G", "H", "I", "J", "K", "L", "M",
      "N", "O", "P", "Q", "R", "S", "T", "U", "V", "W", "X", "Y", "Z", "_",
      "a", "b", "c", "d", "e", "f", "g", "h", "i", "j", "k", "l", "m",
      "n", "o", "p", "q", "r", "s", "t", "u", "v", "w", "x", "y", "z",
      "{", "}", "U2">>

char_code(c) == CHOOSE i \in 1..Len(Ascii) : Ascii[i] = c

RECURSIVE str_lt(_, _)
\* impl PartialOrd for str: a < b
str_lt(a, b) ==
    IF b = <<>> THEN FALSE
    ELSE IF a = <<>> THEN TRUE
    ELSE IF Head(a) # Head(b) THEN char_code(Head(a)) < char_code(Head(b))
    ELSE str_lt(Tail(a), Tail(b))

RECURSIVE Pow10(_)
Pow10(n) == IF n = 0 THEN 1 ELSE 10 * Pow10(n - 1)

\* f64 arithmetic on the numbers <<mantissa, scale>>, which are exact decimals.
f64_add(a, b) ==
    LET scale == Max(a[2], b[2])
    IN  Normalised(a[1] * Pow10(scale - a[2]) + b[1] * Pow10(scale - b[2]), scale)

f64_neg(a) == <<0 - a[1], a[2]>>

f64_sub(a, b) == f64_add(a, f64_neg(b))

f64_mul(a, b) == Normalised(a[1] * b[1], a[2] + b[2])

f64_lt(a, b) == a[1] * Pow10(b[2]) < b[1] * Pow10(a[2])

\* a / b for b # 0, where the quotient is a decimal of at most six digits
\* after the point; other quotients are cut off there.
f64_div(a, b) ==
    LET num == a[1] * Pow10(b[2]) * Pow10(6)
        den == b[1] * Pow10(a[2])
        abs(n) == IF n < 0 THEN 0 - n ELSE n
        quot == IF (num < 0) = (den < 0) THEN abs(num) \div abs(den)
                ELSE 0 - (abs(num) \div abs(den))
    IN  Normalised(quot, 6)

RECURSIVE usize_to_string(_)
\* impl Display for usize
usize_to_string(n) ==
    IF n < 10 THEN <<DigitChars[n + 1]>>
    ELSE usize_to_string(n \div 10) \o <<DigitChars[(n % 10) + 1]>>

RECURSIVE zero_padded(_, _)
zero_padded(digits, width) ==
    IF Len(digits) >= width THEN digits ELSE zero_padded(<<"0">> \o digits, width)

\* The Number arm of impl Display for LoxValue: {:.0} for a number that is its
\* own floor, the number's Display otherwise.
f64_to_string(n) ==
    LET sign == IF n[1] < 0 THEN <<"-">> ELSE <<>>
        digits == zero_padded(usize_to_string(IF n[1] < 0 THEN 0 - n[1] ELSE n[1]),
                              n[2] + 1)
    IN  IF n[2] = 0 THEN sign \o digits
        ELSE sign \o SubSeq(digits, 1, Len(digits) - n[2]) \o <<".">>
                  \o SubSeq(digits, Len(digits) - n[2] + 1, Len(digits))

\* impl Display for LoxFunction, NativeFunction and LoxClass
callable_to_string(callable) ==
    CASE callable.callable = "LoxFunction" ->
            <<"<", "f", "u", "n", " ">> \o callable.decl.name.name \o <<">">>
      [] callable.callable = "NativeFunction" ->
            <<"<", "f", "u", "n", " ", "(", "n", "a", "t", "i", "v", "e", ")", " ">>
                \o callable.name \o <<">">>
      [] callable.callable = "LoxClass" ->
            <<"<", "c", "l", "a", "s", "s", " ">> \o callable.name.name \o <<">">>

RECURSIVE sorted_keys(_)
\* The keys of a map in ascending order.
sorted_keys(keys) ==
    IF keys = {} THEN <<>>
    ELSE LET least == CHOOSE k \in keys : \A other \in keys : ~str_lt(other, k)
         IN  <<least>> \o sorted_keys(keys \ {least})

\* The sequence s reversed.
reversed(s) == [i \in 1..Len(s) |-> s[Len(s) + 1 - i]]

\* HashMap::iter: the order of the keys is that of their hashes under the
\* map's RandomState; hash_seed 0 yields them ascending, another descending.
HashMap_iter(map, hash_seed) ==
    IF hash_seed = 0 THEN sorted_keys(DOMAIN map) ELSE reversed(sorted_keys(DOMAIN map))

RECURSIVE to_string(_, _), debug_string(_, _), instance_entries(_, _, _, _)
\* impl Display for LoxValue
to_string(I, value) ==
    CASE value.type = "Function" -> callable_to_string(value.v)
      [] value.type = "Object" ->
            <<"<", "o", "b", "j", "e", "c", "t", " ">>
                \o I.instances[value.v].constructor.name.name \o <<" ", "{">>
                \o instance_entries(I, I.instances[value.v].properties,
                                    HashMap_iter(I.instances[value.v].properties,
                                                 I.hash_seed), 1)
                \o <<"}", ">">>
      [] value.type = "Boolean" ->
            IF value.v[1] THEN <<"t", "r", "u", "e">> ELSE <<"f", "a", "l", "s", "e">>
      [] value.type = "Number" -> f64_to_string(value.v)
      [] value.type = "String" -> value.v
      [] value.type = "Nil" -> <<"n", "i", "l">>

\* impl Debug for LoxValue
debug_string(I, value) ==
    IF value.type = "String" THEN <<"\"">> \o value.v \o <<"\"">>
    ELSE to_string(I, value)

\* The loop of impl Display for LoxInstance, from the i-th entry on
instance_entries(I, properties, keys, i) ==
    IF i > Len(keys) THEN <<>>
    ELSE (IF i = 1 THEN <<"\n">> ELSE <<>>)
             \o <<" ", " ">> \o keys[i] \o <<":", " ">>
             \o debug_string(I, properties[keys[i]]) \o <<"\n">>
             \o instance_entries(I, properties, keys, i + 1)

\* lox_is_truthy
lox_is_truthy(value) ==
    CASE value.type = "Boolean" -> value.v[1]
      [] value.type \in {"Function", "Object", "Number", "String"} -> TRUE
      [] value.type = "Nil" -> FALSE

\* lox_is_equal
lox_is_equal(a, b) ==
    CASE a.type = "Function" /\ b.type = "Function" -> a.v.rc = b.v.rc
      [] a.type = "Object" /\ b.type = "Object" -> a.v = b.v
      [] a.type = "Boolean" /\ b.type = "Boolean" -> a.v = b.v
      [] a.type = "Number" /\ b.type = "Number" -> a.v = b.v
      [] a.type = "String" /\ b.type = "String" -> a.v = b.v
      [] a.type = "Nil" /\ b.type = "Nil" -> TRUE
      [] OTHER -> FALSE

\* impl Display for Span
Span_to_string(span) ==
    IF span.hi - span.lo <= 1 THEN usize_to_string(span.lo)
    ELSE usize_to_string(span.lo) \o <<".", ".">> \o usize_to_string(span.hi)

\* impl Display for RuntimeError
RuntimeError_to_string(error) ==
    CASE error.kind = "UnsupportedType" ->
            <<error.message, "; at position ", Span_to_string(error.span)>>
      [] error.kind = "UndefinedVariable" ->
            <<"Undefined variable '", error.ident.name, "'; at position ",
              Span_to_string(error.ident.span)>>
      [] error.kind = "UndefinedProperty" ->
            <<"Undefined property '", error.ident.name, "' at position ",
              Span_to_string(error.ident.span)>>
      [] error.kind = "ZeroDivision" ->
            <<"Can not divide by zero; at position ", Span_to_string(error.span)>>

\* ------------------------------------------ src/interpreter/environment.rs
\* An Environment is the index of its EnvironmentInner in the interpreter's
\* envs: clones of an Environment share the Rc and so the index.

\* Environment::new_enclosed; the value is [I, env].
Environment_new_enclosed(I, enclosing) ==
    [I |-> [I EXCEPT !.envs = Append(@, [enclosing |-> <<enclosing>>, locals |-> <<>>])],
     env |-> Len(I.envs) + 1]

\* Environment::define
Environment_define(I, env, ident, value) ==
    [I EXCEPT !.envs[env].locals = Insert(@, ident.name, value)]

RECURSIVE Environment_assign(_, _, _, _)
\* Environment::assign; the value is [I, ok, v].
Environment_assign(I, env, ident, value) ==
    IF ident.name \in DOMAIN I.envs[env].locals
    THEN [I |-> [I EXCEPT !.envs[env].locals[ident.name] = value], ok |-> TRUE,
          v |-> value]
    ELSE IF I.envs[env].enclosing # <<>>
    THEN Environment_assign(I, I.envs[env].enclosing[1], ident, value)
    ELSE [I |-> I, ok |-> FALSE, v |-> [kind |-> "UndefinedVariable", ident |-> ident]]

RECURSIVE Environment_read(_, _, _)
\* Environment::read; the value is [ok, v].
Environment_read(I, env, ident) ==
    IF ident.name \in DOMAIN I.envs[env].locals
    THEN [ok |-> TRUE, v |-> I.envs[env].locals[ident.name]]
    ELSE IF I.envs[env].enclosing # <<>>
    THEN Environment_read(I, I.envs[env].enclosing[1], ident)
    ELSE [ok |-> FALSE, v |-> [kind |-> "UndefinedVariable", ident |-> ident]]

RECURSIVE ancestor(_, _, _)
\* Environment::ancestor; <<>> where the unwrap of a missing enclosing panics.
ancestor(I, env, distance) ==
    IF distance = 0 THEN <<env>>
    ELSE IF I.envs[env].enclosing = <<>> THEN <<>>
    ELSE ancestor(I, I.envs[env].enclosing[1], distance - 1)

\* Environment::read_at; <<>> where an unwrap panics, <<value>> otherwise.
read_at(I, env, distance, name) ==
    LET frame == ancestor(I, env, distance)
    IN  IF frame = <<>> THEN <<>>
        ELSE IF name \notin DOMAIN I.envs[frame[1]].locals THEN <<>>
        ELSE <<I.envs[frame[1]].locals[name]>>

\* Environment::assign_at; the value is [I, ok], ok FALSE where an unwrap panics.
assign_at(I, env, distance, ident, value) ==
    LET frame == ancestor(I, env, distance)
    IN  IF frame = <<>> \/ ident.name \notin DOMAIN I.envs[frame[1]].locals
        THEN [I |-> I, ok |-> FALSE]
        ELSE [I |-> [I EXCEPT !.envs[frame[1]].locals[ident.name] = value], ok |-> TRUE]

\* ------------------------------------------------------ src/interpreter.rs
\* The interpreter I holds locals, globals, env and, as the heap the Rc's point
\* into, envs and instances; rc_seq counts the Rc allocations of callables and
\* ast_id_seq is the process-wide AST_ID_SEQ. out is what println! has written,
\* clock the time SystemTime::now reports, hash_seed the RandomState of the
\* process's HashMaps. panicked holds the panic that unwound the interpreter.
\* init_calls records the calls of class initializers.
\*
\* A CFResult is [I, cf, v]: cf is "Ok" with the value v, "Return" with the
\* returned value v, "Err" with the RuntimeError v, or "Panic".

CfOk(I, v) == [I |-> I, cf |-> "Ok", v |-> v]

CfReturn(I, v) == [I |-> I, cf |-> "Return", v |-> v]

CfErr(I, error) == [I |-> I, cf |-> "Err", v |-> error]

CfPanic(I, message) ==
    [I |-> [I EXCEPT !.panicked = <<message>>], cf |-> "Panic", v |-> <<>>]

\* RuntimeError::UnsupportedType
UnsupportedType(message, span) ==
    [kind |-> "UnsupportedType", message |-> message, span |-> span]

\* def_native!(globals.clock / 0, ...)
NativeFunction_clock ==
    [callable |-> "NativeFunction", name |-> CLOCK, arity |-> 0, rc |-> 0]

\* Interpreter::new
Interpreter_new(ast_id_seq, clock, hash_seed) ==
    [locals |-> <<>>,
     globals |-> 1,
     env |-> 1,
     envs |-> <<[enclosing |-> <<>>,
                 locals |-> Insert(<<>>, CLOCK, LoxValue_Function(NativeFunction_clock))]>>,
     instances |-> <<>>,
     rc_seq |-> 1,
     ast_id_seq |-> ast_id_seq + 1,
     out |-> <<>>,
     clock |-> clock,
     hash_seed |-> hash_seed,
     panicked |-> <<>>,
     init_calls |-> <<>>]

\* lookup_variable that reads a name without distance along the current
\* environment's chain
lookup_variable_current(I, ident) ==
    IF ident.id \in DOMAIN I.locals
    THEN LET value == read_at(I, I.env, I.locals[ident.id], ident.name)
         IN  IF value = <<>> THEN CfPanic(I, "read_at") ELSE CfOk(I, value[1])
    ELSE LET value == Environment_read(I, I.env, ident)
         IN  IF value.ok THEN CfOk(I, value.v) ELSE CfErr(I, value.v)

\* Interpreter::lookup_variable
lookup_variable(I, ident) ==
    IF ident.id \in DOMAIN I.locals
    THEN LET value == read_at(I, I.env, I.locals[ident.id], ident.name)
         IN  IF value = <<>> THEN CfPanic(I, "read_at") ELSE CfOk(I, value[1])
    ELSE LET value == Environment_read(I, I.globals, ident)
         IN  IF value.ok THEN CfOk(I, value.v) ELSE CfErr(I, value.v)

\* Interpreter::ensure_object
ensure_object(I, value, error_span) ==
    IF value.type = "Object" THEN CfOk(I, value.v)
    ELSE CfErr(I, UnsupportedType(
                      "Only objects (instances of some class) have properties",
                      error_span))

\* LoxFunction::bind; the value is [I, fn].
LoxFunction_bind(I, fn, instance) ==
    LET enclosed == Environment_new_enclosed(I, fn.closure)
        this == LoxIdent_new(Span_new(0, 0), THIS, I.ast_id_seq)
        I1 == Environment_define(enclosed.I, enclosed.env, this, LoxValue_Object(instance))
    IN  [I |-> [I1 EXCEPT !.ast_id_seq = @ + 1, !.rc_seq = @ + 1],
         fn |-> [callable |-> "LoxFunction", decl |-> fn.decl, closure |-> enclosed.env,
                 is_class_init |-> fn.is_class_init, rc |-> I.rc_seq]]

RECURSIVE get_method_super_first(_, _)
\* get_method that asks the superclass before the class's own methods
get_method_super_first(class, name) ==
    LET inherited == IF class.super_class # <<>>
                     THEN get_method_super_first(class.super_class[1], name)
                     ELSE <<>>
    IN  IF inherited # <<>> THEN inherited
        ELSE IF name \in DOMAIN class.methods THEN <<class.methods[name]>>
        ELSE <<>>

RECURSIVE get_method(_, _)
\* LoxClass::get_method; <<>> is None. A class of src/data.rs has no
\* super_class, which is None here.
get_method(class, name) ==
    IF name \in DOMAIN class.methods THEN <<class.methods[name]>>
    ELSE IF class.super_class # <<>> THEN get_method(class.super_class[1], name)
    ELSE <<>>

\* LoxInstance::get_bound_method; the value is [I, fn], fn <<>> for None.
get_bound_method(I, instance, name) ==
    LET unbound == get_method(I.instances[instance].constructor, name)
    IN  IF unbound = <<>> THEN [I |-> I, fn |-> <<>>]
        ELSE LET bound == LoxFunction_bind(I, unbound[1], instance)
             IN  [I |-> bound.I, fn |-> <<bound.fn>>]

\* LoxInstance::get
LoxInstance_get(I, instance, ident) ==
    IF ident.name \in DOMAIN I.instances[instance].properties
    THEN CfOk(I, I.instances[instance].properties[ident.name])
    ELSE LET method == get_bound_method(I, instance, ident.name)
         IN  IF method.fn # <<>> THEN CfOk(method.I, LoxValue_Function(method.fn[1]))
             ELSE CfErr(I, [kind |-> "UndefinedProperty", ident |-> ident])

\* LoxInstance::set
LoxInstance_set(I, instance, ident, value) ==
    [I EXCEPT !.instances[instance].properties = Insert(@, ident.name, value)]

\* LoxCallable::arity
arity(callable) ==
    CASE callable.callable = "LoxFunction" -> Len(callable.decl.params)
      [] callable.callable = "NativeFunction" -> callable.arity
      [] callable.callable = "LoxClass" ->
            LET init == get_method(callable, INIT)
            IN  IF init # <<>> THEN Len(init[1].decl.params) ELSE 0

\* The closure of clock
clock(I, args) == CfOk(I, LoxValue_Number(I.clock))

\* NativeFunction::call
NativeFunction_call(I, fn, args) == clock(I, args)

RECURSIVE define_params(_, _, _, _, _)
\* LoxFunction::call's loop: for (param, value) in params.iter().zip(args)
define_params(I, env, params, args, i) ==
    IF i > Len(params) \/ i > Len(args) THEN I
    ELSE define_params(Environment_define(I, env, params[i], args[i]),
                       env, params, args, i + 1)

\* The methods of eval_class_stmt, collected into a HashMap: of two methods
\* of one name the later one stays.
class_methods_map(I, methods) ==
    [name \in {methods[i].name.name : i \in 1..Len(methods)} |->
        LET i == CHOOSE i \in 1..Len(methods) :
                     /\ methods[i].name.name = name
                     /\ \A j \in (i + 1)..Len(methods) : methods[j].name.name # name
        IN  [callable |-> "LoxFunction", decl |-> methods[i], closure |-> I.env,
             is_class_init |-> name = INIT, rc |-> I.rc_seq + i - 1]]

\* Interpreter::eval_class_stmt
eval_class_stmt(I, class) ==
    CfOk([Environment_define(I, I.env, class.name,
              LoxValue_Function([callable |-> "LoxClass", name |-> class.name,
                                 methods |-> class_methods_map(I, class.methods),
                                 super_class |-> <<>>,
                                 rc |-> I.rc_seq + Len(class.methods)]))
          EXCEPT !.rc_seq = @ + Len(class.methods) + 1],
         <<>>)

\* eval_fun_stmt with a closure that is a copy of the current frame, not the
\* frame itself.
eval_fun_stmt_by_value(I, fun) ==
    LET enclosed == [I EXCEPT !.envs = Append(@, I.envs[I.env])]
    IN  CfOk([Environment_define(enclosed, I.env, fun.name,
                  LoxValue_Function([callable |-> "LoxFunction", decl |-> fun,
                                     closure |-> Len(I.envs) + 1,
                                     is_class_init |-> FALSE, rc |-> I.rc_seq]))
              EXCEPT !.rc_seq = @ + 1],
             <<>>)

\* Interpreter::eval_fun_stmt
eval_fun_stmt(I, fun) ==
    CfOk([Environment_define(I, I.env, fun.name,
              LoxValue_Function([callable |-> "LoxFunction", decl |-> fun,
                                 closure |-> I.env,
                                 is_class_init |-> FALSE, rc |-> I.rc_seq]))
          EXCEPT !.rc_seq = @ + 1],
         <<>>)

\* Interpreter::eval_lit_expr
eval_lit_expr(I, lit) == CfOk(I, lit.value)

\* The operator's text, stringify!($op)
stringify(kind) ==
    CASE kind = "Minus" -> "-" [] kind = "Star" -> "*" [] kind = "Slash" -> "/"
      [] kind = "Greater" -> ">" [] kind = "GreaterEqual" -> ">="
      [] kind = "Less" -> "<" [] kind = "LessEqual" -> "<="

\* bin_number_operator!
bin_number_operator(I, left, operator, right) ==
    IF left.type = "Number" /\ right.type = "Number"
    THEN CfOk(I, LoxValue_Number(
                     CASE operator.kind = "Minus" -> f64_sub(left.v, right.v)
                       [] operator.kind = "Star" -> f64_mul(left.v, right.v)
                       [] operator.kind = "Slash" -> f64_div(left.v, right.v)))
    ELSE CfErr(I, UnsupportedType(
                      <<"Binary '", stringify(operator.kind),
                        "' operator can only operate over two numbers. Got types '",
                        type_name(left), "' and '", type_name(right), "'">>,
                      operator.span))

\* left $op right of bin_comparison_operator!, given left < right and right < left
compare(operator, less, greater) ==
    CASE operator.kind = "Greater" -> greater
      [] operator.kind = "GreaterEqual" -> ~less
      [] operator.kind = "Less" -> less
      [] operator.kind = "LessEqual" -> ~greater

\* bin_comparison_operator!
bin_comparison_operator(I, left, operator, right) ==
    IF left.type = "Number" /\ right.type = "Number"
    THEN CfOk(I, LoxValue_Boolean(compare(operator, f64_lt(left.v, right.v),
                                          f64_lt(right.v, left.v))))
    ELSE IF left.type = "String" /\ right.type = "String"
    THEN CfOk(I, LoxValue_Boolean(compare(operator, str_lt(left.v, right.v),
                                          str_lt(right.v, left.v))))
    ELSE CfErr(I, UnsupportedType(
                      <<"Binary '", stringify(operator.kind),
                        "' operator can only compare two numbers or two strings. Got types '",
                        type_name(left), "' and '", type_name(right), "'">>,
                      operator.span))

\* eval_binary_expr once both operands are evaluated
binary_operator(I, left, operator, right) ==
    CASE operator.kind = "Plus" ->
            IF left.type = "Number" /\ right.type = "Number"
            THEN CfOk(I, LoxValue_Number(f64_add(left.v, right.v)))
            ELSE IF left.type = "String" /\ right.type = "String"
            THEN CfOk(I, LoxValue_String(left.v \o right.v))
            ELSE CfErr(I, UnsupportedType(
                     <<"Binary '+' operator can only operate over two numbers or two strings. Got types '",
                       type_name(left), "' and '", type_name(right), "'">>,
                     operator.span))
      [] operator.kind \in {"Minus", "Star"} ->
            bin_number_operator(I, left, operator, right)
      [] operator.kind = "Slash" ->
            IF right.type = "Number" /\ right.v[1] = 0
            THEN CfErr(I, [kind |-> "ZeroDivision", span |-> operator.span])
            ELSE bin_number_operator(I, left, operator, right)
      [] operator.kind = "EqualEqual" -> CfOk(I, LoxValue_Boolean(lox_is_equal(left, right)))
      [] operator.kind = "BangEqual" -> CfOk(I, LoxValue_Boolean(~lox_is_equal(left, right)))
      [] operator.kind \in {"Greater", "GreaterEqual", "Less", "LessEqual"} ->
            bin_comparison_operator(I, left, operator, right)
      [] OTHER -> CfPanic(I, "Invalid binary operator")

\* eval_unary_expr once the operand is evaluated
unary_operator(I, operator, operand) ==
    CASE operator.kind = "Minus" ->
            IF operand.type = "Number" THEN CfOk(I, LoxValue_Number(f64_neg(operand.v)))
            ELSE CfErr(I, UnsupportedType(
                              <<"Bad type for unary '-' operator: '", type_name(operand), "'">>,
                              operator.span))
      [] operator.kind = "Bang" -> CfOk(I, LoxValue_Boolean(~lox_is_truthy(operand)))
      [] operator.kind = "Show" -> CfOk(I, LoxValue_String(to_string(I, operand)))
      [] operator.kind = "Typeof" -> CfOk(I, LoxValue_String(type_name(operand)))
      [] OTHER -> CfPanic(I, "Invalid unary operator")

RECURSIVE eval_stmts(_, _, _), eval_stmt(_, _), eval_block(_, _, _), eval_expr(_, _)
RECURSIVE eval_while_stmt(_, _), eval_args(_, _, _, _), callable_call(_, _, _)
RECURSIVE LoxFunction_call(_, _, _), LoxClass_call(_, _, _)

\* Interpreter::eval_stmts, from the i-th statement on
eval_stmts(I, list, i) ==
    IF i > Len(list) THEN CfOk(I, <<>>)
    ELSE CHOOSE r \in
             {IF done.cf # "Ok" THEN done ELSE eval_stmts(done.I, list, i + 1)
              : done \in {eval_stmt(I, list[i])}} : TRUE

\* Interpreter::eval_var_stmt
eval_var_stmt(I, var) ==
    IF var.init # <<>>
    THEN CHOOSE r \in
             {IF value.cf # "Ok" THEN value
              ELSE CfOk(Environment_define(value.I, value.I.env, var.name, value.v), <<>>)
              : value \in {eval_expr(I, var.init[1])}} : TRUE
    ELSE CfOk(Environment_define(I, I.env, var.name, LoxValue_Nil), <<>>)

\* Interpreter::eval_if_stmt
eval_if_stmt(I, if_stmt) ==
    CHOOSE r \in
    {IF cond_value.cf # "Ok" THEN cond_value
     ELSE IF lox_is_truthy(cond_value.v)
     THEN eval_stmt(cond_value.I, if_stmt.then_branch)
     ELSE IF if_stmt.else_branch # <<>>
     THEN eval_stmt(cond_value.I, if_stmt.else_branch[1])
     ELSE CfOk(cond_value.I, <<>>)
     : cond_value \in {eval_expr(I, if_stmt.cond)}} : TRUE

RECURSIVE eval_while_stmt_ends_on_return(_, _)
\* eval_while_stmt that takes a Return of its body as the end of the loop
eval_while_stmt_ends_on_return(I, while_stmt) ==
    CHOOSE r \in
    {IF cond.cf # "Ok" THEN cond
     ELSE IF ~lox_is_truthy(cond.v) THEN CfOk(cond.I, <<>>)
     ELSE CHOOSE r1 \in
              {IF body.cf = "Return" THEN CfOk(body.I, <<>>)
               ELSE IF body.cf # "Ok" THEN body
               ELSE eval_while_stmt_ends_on_return(body.I, while_stmt)
               : body \in {eval_stmt(cond.I, while_stmt.body)}} : TRUE
     : cond \in {eval_expr(I, while_stmt.cond)}} : TRUE

\* Interpreter::eval_while_stmt
eval_while_stmt(I, while_stmt) ==
    CHOOSE r \in
    {IF cond.cf # "Ok" THEN cond
     ELSE IF ~lox_is_truthy(cond.v) THEN CfOk(cond.I, <<>>)
     ELSE CHOOSE r1 \in
              {IF body.cf # "Ok" THEN body ELSE eval_while_stmt(body.I, while_stmt)
               : body \in {eval_stmt(cond.I, while_stmt.body)}} : TRUE
     : cond \in {eval_expr(I, while_stmt.cond)}} : TRUE

\* Interpreter::eval_return_stmt
eval_return_stmt(I, return_stmt) ==
    IF return_stmt.value # <<>>
    THEN CHOOSE r \in
             {IF value.cf # "Ok" THEN value ELSE CfReturn(value.I, value.v)
              : value \in {eval_expr(I, return_stmt.value[1])}} : TRUE
    ELSE CfReturn(I, LoxValue_Nil)

\* Interpreter::eval_print_stmt
eval_print_stmt(I, print) ==
    CHOOSE r \in
    {IF val.cf # "Ok" THEN val
     ELSE CfOk([val.I EXCEPT !.out = Append(@, IF print.debug
                                               THEN debug_string(val.I, val.v)
                                               ELSE to_string(val.I, val.v))],
               <<>>)
     : val \in {eval_expr(I, print.expr)}} : TRUE

\* eval_block that leaves through `?` before it puts the old environment back
eval_block_restored_on_ok(I, list, new_env) ==
    CHOOSE r \in
    {IF result.cf # "Ok" THEN result ELSE [result EXCEPT !.I.env = I.env]
     : result \in {eval_stmts([I EXCEPT !.env = new_env], list, 1)}} : TRUE

\* Interpreter::eval_block; a panic in the statements unwinds past the
\* assignment that puts the old environment back.
eval_block(I, list, new_env) ==
    CHOOSE r \in
    {IF result.cf = "Panic" THEN result ELSE [result EXCEPT !.I.env = I.env]
     : result \in {eval_stmts([I EXCEPT !.env = new_env], list, 1)}} : TRUE

\* Interpreter::eval_stmt
eval_stmt(I, stmt) ==
    CASE stmt.kind = "VarDecl" -> eval_var_stmt(I, stmt)
      [] stmt.kind = "ClassDecl" -> eval_class_stmt(I, stmt)
      [] stmt.kind = "FunDecl" -> eval_fun_stmt(I, stmt.decl)
      [] stmt.kind = "If" -> eval_if_stmt(I, stmt)
      [] stmt.kind = "While" -> eval_while_stmt(I, stmt)
      [] stmt.kind = "Return" -> eval_return_stmt(I, stmt)
      [] stmt.kind = "Print" -> eval_print_stmt(I, stmt)
      [] stmt.kind = "Block" ->
            LET enclosed == Environment_new_enclosed(I, I.env)
            IN  eval_block(enclosed.I, stmt.stmts, enclosed.env)
      [] stmt.kind = "Expr" ->
            CHOOSE r \in
            {IF value.cf = "Ok" THEN CfOk(value.I, <<>>) ELSE value
             : value \in {eval_expr(I, stmt.expr)}} : TRUE
      [] stmt.kind = "Dummy" -> CfPanic(I, "unreachable")

\* Interpreter::eval_get_expr
eval_get_expr(I, get) ==
    CHOOSE r \in
    {IF maybe_object.cf # "Ok" THEN maybe_object
     ELSE LET instance == ensure_object(maybe_object.I, maybe_object.v, get.name.span)
          IN  IF instance.cf # "Ok" THEN instance
              ELSE LoxInstance_get(instance.I, instance.v, get.name)
     : maybe_object \in {eval_expr(I, get.object)}} : TRUE

\* Interpreter::eval_set_expr
eval_set_expr(I, set) ==
    CHOOSE r \in
    {IF maybe_object.cf # "Ok" THEN maybe_object
     ELSE LET instance == ensure_object(maybe_object.I, maybe_object.v, set.name.span)
          IN  IF instance.cf # "Ok" THEN instance
              ELSE CHOOSE r1 \in
                       {IF value.cf # "Ok" THEN value
                        ELSE CfOk(LoxInstance_set(value.I, instance.v, set.name, value.v),
                                  value.v)
                        : value \in {eval_expr(instance.I, set.value)}} : TRUE
     : maybe_object \in {eval_expr(I, set.object)}} : TRUE

\* eval_call_expr's args: map(eval_expr).collect::<Result<Vec<_>, _>>(), from
\* the i-th argument on; the Ok value is the Vec.
eval_args(I, args, i, acc) ==
    IF i > Len(args) THEN CfOk(I, acc)
    ELSE CHOOSE r \in
             {IF arg.cf # "Ok" THEN arg
              ELSE eval_args(arg.I, args, i + 1, Append(acc, arg.v))
              : arg \in {eval_expr(I, args[i])}} : TRUE

\* eval_call_expr that looks at the callee before it evaluates the arguments
eval_call_expr_checked_first(I, call, span) ==
    CHOOSE r \in
    {IF callee.cf # "Ok" THEN callee
     ELSE IF callee.v.type # "Function"
     THEN CfErr(callee.I, UnsupportedType(
                              <<"Type '", type_name(callee.v),
                                "' is not callable, can only call functions and classes">>,
                              span))
     ELSE IF arity(callee.v.v) # Len(call.args)
     THEN CfErr(callee.I, UnsupportedType(
                              <<"Expected ", usize_to_string(arity(callee.v.v)),
                                " arguments, but got ", usize_to_string(Len(call.args))>>,
                              span))
     ELSE CHOOSE r1 \in
              {IF args.cf # "Ok" THEN args
               ELSE callable_call(args.I, callee.v.v, args.v)
               : args \in {eval_args(callee.I, call.args, 1, <<>>)}} : TRUE
     : callee \in {eval_expr(I, call.callee)}} : TRUE

\* Interpreter::eval_call_expr; the backquotes of the message are written as
\* apostrophes.
eval_call_expr(I, call, span) ==
    CHOOSE r \in
    {IF callee.cf # "Ok" THEN callee
     ELSE CHOOSE r1 \in
    {IF args.cf # "Ok" THEN args
     ELSE IF callee.v.type = "Function" /\ arity(callee.v.v) = Len(args.v)
     THEN callable_call(args.I, callee.v.v, args.v)
     ELSE IF callee.v.type = "Function"
     THEN CfErr(args.I, UnsupportedType(
                            <<"Expected ", usize_to_string(arity(callee.v.v)),
                              " arguments, but got ", usize_to_string(Len(args.v))>>,
                            span))
     ELSE CfErr(args.I, UnsupportedType(
                            <<"Type '", type_name(callee.v),
                              "' is not callable, can only call functions and classes">>,
                            span))
     : args \in {eval_args(callee.I, call.args, 1, <<>>)}} : TRUE
     : callee \in {eval_expr(I, call.callee)}} : TRUE

\* Interpreter::eval_unary_expr
eval_unary_expr(I, unary) ==
    CHOOSE r \in
    {IF operand.cf # "Ok" THEN operand
     ELSE unary_operator(operand.I, unary.operator, operand.v)
     : operand \in {eval_expr(I, unary.operand)}} : TRUE

\* Interpreter::eval_binary_expr
eval_binary_expr(I, binary) ==
    CHOOSE r \in
    {IF left.cf # "Ok" THEN left
     ELSE CHOOSE r1 \in
              {IF right.cf # "Ok" THEN right
               ELSE binary_operator(right.I, left.v, binary.operator, right.v)
               : right \in {eval_expr(left.I, binary.right)}} : TRUE
     : left \in {eval_expr(I, binary.left)}} : TRUE

\* eval_logical_expr that evaluates both operands before it chooses
eval_logical_expr_eager(I, logical) ==
    CHOOSE r \in
    {IF left.cf # "Ok" THEN left
     ELSE CHOOSE r1 \in
              {IF right.cf # "Ok" THEN right
               ELSE IF logical.operator.kind = "And" /\ ~lox_is_truthy(left.v)
               THEN CfOk(right.I, left.v)
               ELSE IF logical.operator.kind = "Or" /\ lox_is_truthy(left.v)
               THEN CfOk(right.I, left.v)
               ELSE right
               : right \in {eval_expr(left.I, logical.right)}} : TRUE
     : left \in {eval_expr(I, logical.left)}} : TRUE

\* Interpreter::eval_logical_expr
eval_logical_expr(I, logical) ==
    CHOOSE r \in
    {IF left.cf # "Ok" THEN left
     ELSE IF logical.operator.kind = "And" /\ ~lox_is_truthy(left.v) THEN left
     ELSE IF logical.operator.kind = "Or" /\ lox_is_truthy(left.v) THEN left
     ELSE eval_expr(left.I, logical.right)
     : left \in {eval_expr(I, logical.left)}} : TRUE

\* Interpreter::eval_assignment_expr
eval_assignment_expr(I, assignment) ==
    CHOOSE r \in
    {IF value.cf # "Ok" THEN value
     ELSE IF assignment.name.id \in DOMAIN value.I.locals
     THEN LET assigned == assign_at(value.I, value.I.env,
                                    value.I.locals[assignment.name.id],
                                    assignment.name, value.v)
          IN  IF assigned.ok THEN CfOk(assigned.I, value.v)
              ELSE CfPanic(value.I, "assign_at")
     ELSE LET assigned == Environment_assign(value.I, value.I.globals,
                                             assignment.name, value.v)
          IN  IF assigned.ok THEN CfOk(assigned.I, assigned.v)
              ELSE CfErr(assigned.I, assigned.v)
     : value \in {eval_expr(I, assignment.value)}} : TRUE

\* Interpreter::eval_expr
eval_expr(I, expr) ==
    CASE expr.kind = "Lit" -> eval_lit_expr(I, expr)
      [] expr.kind = "This" -> lookup_variable(I, expr.name)
      [] expr.kind = "Var" -> lookup_variable(I, expr.name)
      [] expr.kind = "Group" -> eval_expr(I, expr.expr)
      [] expr.kind = "Get" -> eval_get_expr(I, expr)
      [] expr.kind = "Set" -> eval_set_expr(I, expr)
      [] expr.kind = "Call" -> eval_call_expr(I, expr, expr.span)
      [] expr.kind = "Unary" -> eval_unary_expr(I, expr)
      [] expr.kind = "Binary" -> eval_binary_expr(I, expr)
      [] expr.kind = "Logical" -> eval_logical_expr(I, expr)
      [] expr.kind = "Assignment" -> eval_assignment_expr(I, expr)

\* LoxCallable::call, dispatched on the callable
callable_call(I, callable, args) ==
    CASE callable.callable = "LoxFunction" -> LoxFunction_call(I, callable, args)
      [] callable.callable = "NativeFunction" -> NativeFunction_call(I, callable, args)
      [] callable.callable = "LoxClass" -> LoxClass_call(I, callable, args)

\* The entry of init_calls for a call of fn whose body completed as body and
\* that yields result.
init_call(I, fn, body, result) ==
    [fn |-> fn.rc, body |-> body.cf, this |-> read_at(I, fn.closure, 0, THIS),
     cf |-> result.cf, v |-> result.v]

\* LoxFunction::call that yields what the body returned, for an initializer too
LoxFunction_call_returned(I, fn, args) ==
    LET enclosed == Environment_new_enclosed(I, fn.closure)
    IN  CHOOSE r \in
        {LET result == CASE body.cf = "Ok" -> CfOk(body.I, LoxValue_Nil)
                         [] body.cf = "Return" -> CfOk(body.I, body.v)
                         [] OTHER -> body
         IN  IF fn.is_class_init
             THEN [result EXCEPT !.I.init_calls =
                      Append(@, init_call(body.I, fn, body, result))]
             ELSE result
         : body \in {eval_block(define_params(enclosed.I, enclosed.env,
                                              fn.decl.params, args, 1),
                                fn.decl.body, enclosed.env)}} : TRUE

\* LoxFunction::call
LoxFunction_call(I, fn, args) ==
    LET enclosed == Environment_new_enclosed(I, fn.closure)
    IN  CHOOSE r \in
        {LET this == read_at(body.I, fn.closure, 0, THIS)
             result == CASE body.cf \in {"Ok", "Return"} /\ fn.is_class_init ->
                                IF this = <<>> THEN CfPanic(body.I, "read_at")
                                ELSE CfOk(body.I, this[1])
                         [] body.cf = "Ok" -> CfOk(body.I, LoxValue_Nil)
                         [] body.cf = "Return" -> CfOk(body.I, body.v)
                         [] OTHER -> body
         IN  IF fn.is_class_init
             THEN [result EXCEPT !.I.init_calls =
                      Append(@, init_call(body.I, fn, body, result))]
             ELSE result
         : body \in {eval_block(define_params(enclosed.I, enclosed.env,
                                              fn.decl.params, args, 1),
                                fn.decl.body, enclosed.env)}} : TRUE

\* LoxClass::call
LoxClass_call(I, class, args) ==
    LET instance == Len(I.instances) + 1
        init == get_bound_method(
                    [I EXCEPT !.instances =
                        Append(@, [constructor |-> class, properties |-> <<>>])],
                    instance, INIT)
    IN  IF init.fn # <<>>
        THEN CHOOSE r \in
                 {IF called.cf # "Ok" THEN called
                  ELSE CfOk(called.I, LoxValue_Object(instance))
                  : called \in {LoxFunction_call(init.I, init.fn[1], args)}} : TRUE
        ELSE CfOk(init.I, LoxValue_Object(instance))

\* ------------------------------------- tree-lox/src/data.rs: class chains
\* Instances of a class that has superclasses, and property reads and writes on
\* them. pipeline holds the interpreter, the number of reads and writes done
\* and the last of them: the instance, the name, the interpreter before it and
\* what it returned.

\* The names of the methods and properties.
MethodNames == {<<"m">>, <<"n">>}

\* The declaration of method `name` in the class at place k of the chain.
MethodDecl(name, k) ==
    [name |-> LoxIdent_new(Span_new(k, k), name, k), params |-> <<>>, body |-> <<>>,
     span |-> Span_new(k, k)]

\* The ClassDecl arm of the evaluator for the class at place k, with the
\* methods of the given names and the superclass super (<<>> for none): a
\* superclass is bound as `super` in a new environment, which the methods
\* capture. The value is [I, class].
declare_class(I, k, names, super) ==
    LET enclosed == IF super = <<>> THEN [I |-> I, env |-> I.env]
                    ELSE Environment_new_enclosed(I, I.env)
        I1 == IF super = <<>> THEN enclosed.I
              ELSE Environment_define(enclosed.I, enclosed.env,
                                      LoxIdent_new(Span_new(0, 0), SUPER, 0),
                                      LoxValue_Function(super[1]))
        order == sorted_keys(names)
        class == [callable |-> "LoxClass",
                  name |-> LoxIdent_new(Span_new(k, k), <<"C", DigitChars[k + 1]>>, k),
                  methods |->
                      [name \in names |->
                          [callable |-> "LoxFunction", decl |-> MethodDecl(name, k),
                           closure |-> enclosed.env, is_class_init |-> name = INIT,
                           rc |-> I.rc_seq - 1
                                      + CHOOSE i \in 1..Len(order) : order[i] = name]],
                  super_class |-> super,
                  rc |-> I.rc_seq + Cardinality(names)]
    IN  [I |-> [Environment_define(I1, I.env, class.name, LoxValue_Function(class))
                EXCEPT !.rc_seq = @ + Cardinality(names) + 1],
         class |-> class]

RECURSIVE class_chain(_, _, _, _)
\* The classes C1, C2 < C1, ... declared one after the other; the value is
\* [I, class] with the last class.
class_chain(I, methods, k, super) ==
    LET declared == declare_class(I, k, methods[k], super)
    IN  IF k = Len(methods) THEN declared
        ELSE class_chain(declared.I, methods, k + 1, <<declared.class>>)

ClassInit ==
    /\ impl = "none" /\ source = <<>> /\ scanner = <<>> /\ tokens = <<>>
    /\ exhausted = TRUE
    /\ parser = <<>> /\ stmts = <<>> /\ outcome = <<>>
    /\ \E depth \in 1..MaxChain :
       \E methods \in [1..depth -> SUBSET MethodNames] :
       \E chain \in {class_chain(Interpreter_new(0, <<17, 1>>, 0), methods, 1, <<>>)} :
       \E first \in {LoxClass_call(chain.I, chain.class, <<>>)} :
       \E second \in {LoxClass_call(first.I, chain.class, <<>>)} :
           pipeline = [program |-> [name |-> "Class", depth |-> depth],
                       interpreter |-> <<second.I>>, ops |-> 0, last |-> <<>>]

\* A property read, instance.get(&name) of eval_get_expr
Get ==
    /\ pipeline.ops < MaxOps
    /\ \E instance \in 1..Len(pipeline.interpreter[1].instances), name \in MethodNames :
       \E got \in {LoxInstance_get(pipeline.interpreter[1], instance,
                                    LoxIdent_new(Span_new(0, 0), name, 0))} :
           pipeline' = [pipeline EXCEPT
                            !.interpreter = <<got.I>>,
                            !.ops = @ + 1,
                            !.last = <<[op |-> "get", instance |-> instance,
                                        name |-> name,
                                        before |-> pipeline.interpreter[1],
                                        returned |-> [cf |-> got.cf, v |-> got.v]]>>]
    /\ UNCHANGED <<scanVars, parseVars>>

\* A property write, instance.set(&name, value) of eval_set_expr
Set ==
    /\ pipeline.ops < MaxOps
    /\ \E instance \in 1..Len(pipeline.interpreter[1].instances), name \in MethodNames :
       \E value \in {LoxValue_Number(<<pipeline.ops + 1, 0>>)} :
           pipeline' = [pipeline EXCEPT
                            !.interpreter = <<LoxInstance_set(
                                                  pipeline.interpreter[1], instance,
                                                  LoxIdent_new(Span_new(0, 0), name, 0),
                                                  value)>>,
                            !.ops = @ + 1,
                            !.last = <<[op |-> "set", instance |-> instance,
                                        name |-> name,
                                        before |-> pipeline.interpreter[1],
                                        returned |-> [cf |-> "Ok", v |-> value]]>>]
    /\ UNCHANGED <<scanVars, parseVars>>

ClassNext == Get \/ Set

SpecClass == ClassInit /\ [][ClassNext]_vars

\* ----------------------------------------- the resolver on this and super
\* Resolver::resolve on syntax trees that hold This and Super expressions and
\* classes with a super_name (ast/expr.rs, ast/stmt.rs). The expression under
\* watch carries the identifier id Watched; every other identifier has an id
\* of its own.

\* this or super.m, with the watched identifier
WatchedExpr(expr) ==
    LET id == 9
    IN  IF expr = "this"
        THEN [kind |-> "This", span |-> Span_new(id, id + 4),
              name |-> LoxIdent_new(Span_new(id, id + 4), THIS, id)]
        ELSE [kind |-> "Super", span |-> Span_new(id, id + 7),
              super_ident |-> LoxIdent_new(Span_new(id, id + 5), SUPER, id),
              method |-> LoxIdent_new(Span_new(id + 6, id + 7), <<"m">>, id + 1)]

\* the identifier id of the expression under watch
Watched == WatchedExpr("this").name.id

\* The statement that uses the expression: E; or print E; or E();
WatchedStmt(expr, use) ==
    CASE use = "stmt" -> <<[kind |-> "Expr", expr |-> WatchedExpr(expr)]>>
      [] use = "print" -> <<[kind |-> "Print", expr |-> WatchedExpr(expr)]>>
      [] use = "call" ->
            <<[kind |-> "Expr",
               expr |-> [kind |-> "Call", callee |-> WatchedExpr(expr), args |-> <<>>]]>>

\* The places of the statement, written E:
\*   top              E
\*   function         fun f() { E }
\*   after_class      class A { m() { } } E
\*   after_sub        class B < A { m() { } } E
\*   class_method     class A { m() { E } }
\*   class_init       class A { init() { E } }
\*   class_nested     class A { m() { fun g() { E } } }
\*   inner_class      class B < A { m() { class C { n() { E } } } }
\*   after_inner_sub  class A { m() { class C < B { n() { } } E } }
\*   sub_method       class B < A { m() { E } }
\*   sub_init         class B < A { init() { E } }
\*   sub_nested       class B < A { m() { fun g() { E } } }
\*   after_inner      class B < A { m() { class C { n() { } } E } }
\*   inner_sub        class A { m() { class C < B { n() { E } } } }
\*   self             class A < A { m() { E } }
ClassPlaces(E) ==
    LET ident(name, id) == LoxIdent_new(Span_new(id, id + 1), name, id)
        method(name, id, body) ==
            [name |-> ident(name, id), params |-> <<>>, body |-> body]
        fun(name, id, body) == [kind |-> "FunDecl", decl |-> method(name, id, body)]
        class(name, id, super, methods) ==
            [kind |-> "ClassDecl", name |-> ident(name, id), super_name |-> super,
             methods |-> methods]
        A == <<"A">>
        B == <<"B">>
        C == <<"C">>
        m == <<"m">>
        n == <<"n">>
    IN  [top |-> E,
         function |-> <<fun(<<"f">>, 1, E)>>,
         after_class |-> <<class(A, 1, <<>>, <<method(m, 2, <<>>)>>)>> \o E,
         after_sub |-> <<class(B, 1, <<ident(A, 2)>>, <<method(m, 3, <<>>)>>)>> \o E,
         class_method |-> <<class(A, 1, <<>>, <<method(m, 2, E)>>)>>,
         class_init |-> <<class(A, 1, <<>>, <<method(INIT, 2, E)>>)>>,
         class_nested |->
            <<class(A, 1, <<>>, <<method(m, 2, <<fun(<<"g">>, 3, E)>>)>>)>>,
         inner_class |->
            <<class(B, 1, <<ident(A, 2)>>,
                    <<method(m, 3, <<class(C, 4, <<>>, <<method(n, 5, E)>>)>>)>>)>>,
         after_inner_sub |->
            <<class(A, 1, <<>>,
                    <<method(m, 2, <<class(C, 3, <<ident(B, 4)>>,
                                           <<method(n, 5, <<>>)>>)>> \o E)>>)>>,
         sub_method |-> <<class(B, 1, <<ident(A, 2)>>, <<method(m, 3, E)>>)>>,
         sub_init |-> <<class(B, 1, <<ident(A, 2)>>, <<method(INIT, 3, E)>>)>>,
         sub_nested |->
            <<class(B, 1, <<ident(A, 2)>>,
                    <<method(m, 3, <<fun(<<"g">>, 4, E)>>)>>)>>,
         after_inner |->
            <<class(B, 1, <<ident(A, 2)>>,
                    <<method(m, 3, <<class(C, 4, <<>>, <<method(n, 5, <<>>)>>)>>
                                       \o E)>>)>>,
         inner_sub |->
            <<class(A, 1, <<>>,
                    <<method(m, 2, <<class(C, 3, <<ident(B, 4)>>,
                                           <<method(n, 5, E)>>)>>)>>)>>,
         self |-> <<class(A, 1, <<ident(A, 2)>>, <<method(m, 3, E)>>)>>]

\* The programs: an expression, its use and its place; second says whether a
\* statement print 1; follows.
ClassPrograms ==
    [name : {"ThisSuper"}, expr : {"this", "super"}, use : {"stmt", "print", "call"},
     place : DOMAIN ClassPlaces(<<>>), second : BOOLEAN]

\* The syntax tree of a program
ClassProgramStmts(program) ==
    ClassPlaces(WatchedStmt(program.expr, program.use))[program.place]
        \o (IF program.second
            THEN <<[kind |-> "Print",
                    expr |-> [kind |-> "Lit", value |-> LoxValue_Number(<<1, 0>>)]]>>
            ELSE <<>>)

\* Resolver::new on the interpreter, before resolve is called with the tree.
ResolveInit ==
    /\ impl = "none" /\ source = <<>> /\ scanner = <<>> /\ tokens = <<>>
    /\ exhausted = TRUE
    /\ parser = <<>> /\ stmts = <<>>
    /\ \E program \in ClassPrograms :
           /\ outcome = <<ClassProgramStmts(program), <<>>>>
           /\ pipeline = [program |-> program, phase |-> "resolve", next |-> 1,
                          resolver |-> Resolver_new(<<>>), resolved |-> <<>>]

\* One turn of the loop of resolve_stmts that Resolver::resolve runs:
\* self.resolve_stmt(stmt)
ResolveStmt ==
    /\ pipeline.phase = "resolve"
    /\ pipeline.next <= Len(outcome[1])
    /\ pipeline' = [pipeline EXCEPT
                        !.resolver = resolve_stmt(@, outcome[1][pipeline.next]),
                        !.next = @ + 1]
    /\ UNCHANGED <<scanVars, parseVars>>

\* The end of Resolver::resolve: (self.errors.is_empty(), self.errors)
ResolveReturn ==
    /\ pipeline.phase = "resolve"
    /\ pipeline.next > Len(outcome[1])
    /\ pipeline' = [pipeline EXCEPT
                        !.phase = "done",
                        !.resolved = <<[ok |-> pipeline.resolver.errors = <<>>,
                                        errors |-> pipeline.resolver.errors,
                                        locals |-> pipeline.resolver.locals,
                                        panicked |-> pipeline.resolver.panicked]>>]
    /\ UNCHANGED <<scanVars, parseVars>>

ResolveNext == ResolveStmt \/ ResolveReturn

SpecResolve == ResolveInit /\ [][ResolveNext]_vars

\* ------------------------------------------------ the identifier id counter
\* static LOX_IDENT_ID_SEQ: AtomicUsize (data.rs; AST_ID_SEQ in ast/mod.rs) is
\* the one counter of the process. Threads call LoxIdent::new, whose
\* LoxIdentId::new is one atomic fetch_add; the construction of the identifier
\* is a later step of the thread. The identifiers built are cloned and handed
\* to Interpreter::resolve_local. fetch_add wraps at the width of usize, far
\* beyond the ids minted here.

\* The threads that mint identifier ids, and the ids minted in all.
Threads == 2

MaxMints == 3

\* LoxIdentId::new whose fetch_add leaves the counter as it was
LoxIdentId_new_unchanged(seq) == [id |-> seq, seq |-> seq]

\* LoxIdentId::new: LOX_IDENT_ID_SEQ.fetch_add(1, SeqCst) yields the value of
\* before and leaves the counter one higher.
LoxIdentId_new(seq) == [id |-> seq, seq |-> seq + 1]

\* static LOX_IDENT_ID_SEQ: AtomicUsize = AtomicUsize::new(0), no identifier
\* built and the interpreter's locals empty.
IdsInit ==
    /\ impl = "none" /\ source = <<>> /\ scanner = <<>> /\ tokens = <<>>
    /\ exhausted = TRUE
    /\ parser = <<>> /\ stmts = <<>> /\ outcome = <<>>
    /\ pipeline = [program |-> [name |-> "Ids"],
                   seq |-> 0,
                   threads |-> [t \in 1..Threads |-> [pc |-> "idle", id |-> 0, mints |-> 0]],
                   minted |-> <<>>,
                   idents |-> {},
                   locals |-> <<>>,
                   written |-> <<>>]

\* Thread t enters LoxIdent::new and runs LoxIdentId::new.
Mint(t) ==
    /\ pipeline.threads[t].pc = "idle"
    /\ Len(pipeline.minted) < MaxMints
    /\ \E r \in {LoxIdentId_new(pipeline.seq)} :
           pipeline' = [pipeline EXCEPT
                            !.seq = r.seq,
                            !.threads[t] = [pc |-> "new", id |-> r.id, mints |-> @.mints + 1],
                            !.minted = Append(@, r.id)]
    /\ UNCHANGED <<scanVars, parseVars>>

\* Thread t returns from LoxIdent::new with the identifier a of its own span.
Build(t) ==
    /\ pipeline.threads[t].pc = "new"
    /\ pipeline' = [pipeline EXCEPT
                        !.threads[t].pc = "idle",
                        !.idents = @ \cup
                            {[ident |-> LoxIdent_new(
                                            Span_new(10 * t + pipeline.threads[t].mints,
                                                     10 * t + pipeline.threads[t].mints + 1),
                                            <<"a">>, pipeline.threads[t].id),
                              clone |-> FALSE]}]
    /\ UNCHANGED <<scanVars, parseVars>>

\* #[derive(Clone)] on LoxIdent: an identifier is cloned; clone marks the
\* copy.
Clone ==
    /\ \E original \in pipeline.idents :
           /\ ~original.clone
           /\ [original EXCEPT !.clone = TRUE] \notin pipeline.idents
           /\ pipeline' = [pipeline EXCEPT
                               !.idents = @ \cup {[ident |-> original.ident,
                                                   clone |-> TRUE]}]
    /\ UNCHANGED <<scanVars, parseVars>>

\* Interpreter::resolve_local for an identifier, original or clone, of an
\* occurrence not resolved yet; the depth is one that no other occurrence
\* has. written keeps the depth by the span of the occurrence.
ResolveLocal ==
    /\ \E i \in pipeline.idents :
           /\ i.ident.span \notin DOMAIN pipeline.written
           /\ pipeline' = [pipeline EXCEPT
                               !.locals = resolve_local(@, i.ident, i.ident.span.lo),
                               !.written = Insert(@, i.ident.span, i.ident.span.lo)]
    /\ UNCHANGED <<scanVars, parseVars>>

IdsNext == (\E t \in 1..Threads : Mint(t) \/ Build(t)) \/ Clone \/ ResolveLocal

SpecIds == IdsInit /\ [][IdsNext]_vars

\* ------------------------------------------------------ src/user/mod.rs
\* run_file, twice in one process on one source. pipeline holds the program,
\* the run, the phase of handle_parser_outcome, the interpreter of the run
\* (<<>> before Interpreter::new), what Resolver::resolve returned with the
\* distances it recorded (<<>> if it was not run), what Interpreter::interpret
\* returned (<<>> until it returns), the statement interpret is at, and the
\* report of every finished run: the diagnostics written to stderr, the result
\* and the lines written to stdout.

Id(name) == [kind |-> "Identifier", val |-> name]

Str(text) == [kind |-> "String", val |-> text]

\* fun make() { var i = 0; fun inc() { i = i + 1; return i; } return inc; }
\* var c = make(); and n times print c();
CounterTokens(n) ==
    <<TK("Fun"), Id(<<"m", "a", "k", "e">>), TK("LeftParen"), TK("RightParen"),
      TK("LeftBrace"),
      TK("Var"), Id(<<"i">>), TK("Equal"), Num(0), TK("Semicolon"),
      TK("Fun"), Id(<<"i", "n", "c">>), TK("LeftParen"), TK("RightParen"), TK("LeftBrace"),
      Id(<<"i">>), TK("Equal"), Id(<<"i">>), TK("Plus"), Num(1), TK("Semicolon"),
      TK("Return"), Id(<<"i">>), TK("Semicolon"),
      TK("RightBrace"),
      TK("Return"), Id(<<"i", "n", "c">>), TK("Semicolon"),
      TK("RightBrace"),
      TK("Var"), Id(<<"c">>), TK("Equal"), Id(<<"m", "a", "k", "e">>),
      TK("LeftParen"), TK("RightParen"), TK("Semicolon")>>
    \o [j \in 1..(5 * n) |->
           <<TK("Print"), Id(<<"c">>), TK("LeftParen"), TK("RightParen"),
             TK("Semicolon")>>[((j - 1) % 5) + 1]]

\* var get; var set;
\* { var x = 0; fun g() { return x; } fun s(v) { x = v; } get = g; set = s; }
\* set(1); ... set(n); print get();
SharedTokens(n) ==
    <<TK("Var"), Id(<<"g", "e", "t">>), TK("Semicolon"),
      TK("Var"), Id(<<"s", "e", "t">>), TK("Semicolon"),
      TK("LeftBrace"),
      TK("Var"), Id(<<"x">>), TK("Equal"), Num(0), TK("Semicolon"),
      TK("Fun"), Id(<<"g">>), TK("LeftParen"), TK("RightParen"), TK("LeftBrace"),
      TK("Return"), Id(<<"x">>), TK("Semicolon"), TK("RightBrace"),
      TK("Fun"), Id(<<"s">>), TK("LeftParen"), Id(<<"v">>), TK("RightParen"),
      TK("LeftBrace"),
      Id(<<"x">>), TK("Equal"), Id(<<"v">>), TK("Semicolon"), TK("RightBrace"),
      Id(<<"g", "e", "t">>), TK("Equal"), Id(<<"g">>), TK("Semicolon"),
      Id(<<"s", "e", "t">>), TK("Equal"), Id(<<"s">>), TK("Semicolon"),
      TK("RightBrace")>>
    \o [j \in 1..(5 * n) |->
           <<Id(<<"s", "e", "t">>), TK("LeftParen"), Num(((j - 1) \div 5) + 1),
             TK("RightParen"), TK("Semicolon")>>[((j - 1) % 5) + 1]]
    \o <<TK("Print"), Id(<<"g", "e", "t">>), TK("LeftParen"), TK("RightParen"),
         TK("Semicolon")>>

\* { var x = 1; fun f() { return x; } x = 2; print f(); }
LateTokens ==
    <<TK("LeftBrace"),
      TK("Var"), Id(<<"x">>), TK("Equal"), Num(1), TK("Semicolon"),
      TK("Fun"), Id(<<"f">>), TK("LeftParen"), TK("RightParen"), TK("LeftBrace"),
      TK("Return"), Id(<<"x">>), TK("Semicolon"), TK("RightBrace"),
      Id(<<"x">>), TK("Equal"), Num(2), TK("Semicolon"),
      TK("Print"), Id(<<"f">>), TK("LeftParen"), TK("RightParen"), TK("Semicolon"),
      TK("RightBrace")>>

\* The bodies of the initializers: nothing, return; print 1; and nil();
InitBodies ==
    [empty |-> <<>>,
     return |-> <<TK("Return"), TK("Semicolon")>>,
     print |-> <<TK("Print"), Num(1), TK("Semicolon")>>,
     error |-> <<TK("Nil"), TK("LeftParen"), TK("RightParen"), TK("Semicolon")>>]

\* What is done with the class: print A(); or var a = A(); print a.init() == a;
\* or var a = A(); var b = A(); print a.init() == b;
InitUses ==
    [instantiate |->
        <<TK("Print"), Id(<<"A">>), TK("LeftParen"), TK("RightParen"), TK("Semicolon")>>,
     direct |->
        <<TK("Var"), Id(<<"a">>), TK("Equal"), Id(<<"A">>), TK("LeftParen"),
          TK("RightParen"), TK("Semicolon"),
          TK("Print"), Id(<<"a">>), TK("Dot"), Id(INIT), TK("LeftParen"),
          TK("RightParen"), TK("EqualEqual"), Id(<<"a">>), TK("Semicolon")>>,
     other |->
        <<TK("Var"), Id(<<"a">>), TK("Equal"), Id(<<"A">>), TK("LeftParen"),
          TK("RightParen"), TK("Semicolon"),
          TK("Var"), Id(<<"b">>), TK("Equal"), Id(<<"A">>), TK("LeftParen"),
          TK("RightParen"), TK("Semicolon"),
          TK("Print"), Id(<<"a">>), TK("Dot"), Id(INIT), TK("LeftParen"),
          TK("RightParen"), TK("EqualEqual"), Id(<<"b">>), TK("Semicolon")>>]

\* class A { init() { body } } and a use of A
InitTokens(body, use) ==
    <<TK("Class"), Id(<<"A">>), TK("LeftBrace"),
      Id(INIT), TK("LeftParen"), TK("RightParen"), TK("LeftBrace")>>
    \o InitBodies[body]
    \o <<TK("RightBrace"), TK("RightBrace")>>
    \o InitUses[use]

\* What is done with a local a: { var a = a = 1; } { var a = 1; a = 2; print a; }
\* { var a = a; } and, at the top level, var a = a = 1; and var a = a;
LocalTokens ==
    [assign_in_initializer |->
        <<TK("LeftBrace"), TK("Var"), Id(<<"a">>), TK("Equal"), Id(<<"a">>),
          TK("Equal"), Num(1), TK("Semicolon"), TK("RightBrace")>>,
     assign |->
        <<TK("LeftBrace"), TK("Var"), Id(<<"a">>), TK("Equal"), Num(1), TK("Semicolon"),
          Id(<<"a">>), TK("Equal"), Num(2), TK("Semicolon"),
          TK("Print"), Id(<<"a">>), TK("Semicolon"), TK("RightBrace")>>,
     read_in_initializer |->
        <<TK("LeftBrace"), TK("Var"), Id(<<"a">>), TK("Equal"), Id(<<"a">>),
          TK("Semicolon"), TK("RightBrace")>>,
     global_assign_in_initializer |->
        <<TK("Var"), Id(<<"a">>), TK("Equal"), Id(<<"a">>), TK("Equal"), Num(1),
          TK("Semicolon")>>,
     global_read_in_initializer |->
        <<TK("Var"), Id(<<"a">>), TK("Equal"), Id(<<"a">>), TK("Semicolon")>>]

\* What is done with a name a that a function uses before the block declares
\* it:
\*   var a = 0; { fun f() { return a; } var a = 1; print f(); }
\*   { fun f() { return a; } var a = 1; print f(); }
\*   var a = 0; { fun f() { a = 2; } var a = 1; f(); print a; } print a;
\*   { fun f() { a = 2; } var a = 1; f(); }
GlobalTokens ==
    LET global == <<TK("Var"), Id(<<"a">>), TK("Equal"), Num(0), TK("Semicolon")>>
        reader == <<TK("LeftBrace"),
                    TK("Fun"), Id(<<"f">>), TK("LeftParen"), TK("RightParen"),
                    TK("LeftBrace"), TK("Return"), Id(<<"a">>), TK("Semicolon"),
                    TK("RightBrace"),
                    TK("Var"), Id(<<"a">>), TK("Equal"), Num(1), TK("Semicolon"),
                    TK("Print"), Id(<<"f">>), TK("LeftParen"), TK("RightParen"),
                    TK("Semicolon"), TK("RightBrace")>>
        writer == <<TK("LeftBrace"),
                    TK("Fun"), Id(<<"f">>), TK("LeftParen"), TK("RightParen"),
                    TK("LeftBrace"), Id(<<"a">>), TK("Equal"), Num(2), TK("Semicolon"),
                    TK("RightBrace"),
                    TK("Var"), Id(<<"a">>), TK("Equal"), Num(1), TK("Semicolon"),
                    Id(<<"f">>), TK("LeftParen"), TK("RightParen"), TK("Semicolon")>>
        print == <<TK("Print"), Id(<<"a">>), TK("Semicolon")>>
    IN  [shadow_read |-> global \o reader,
         hidden_read |-> reader,
         shadow_write |-> global \o writer \o print \o <<TK("RightBrace")>> \o print,
         hidden_write |-> writer \o <<TK("RightBrace")>>]

\* fun name(params) { print mark; print params; return result; }
FunTokens(name, params, mark, result) ==
    <<TK("Fun"), Id(name), TK("LeftParen")>>
    \o [j \in 1..(2 * Len(params) - 1) |->
           IF j % 2 = 1 THEN Id(params[(j + 1) \div 2]) ELSE TK("Comma")]
    \o <<TK("RightParen"), TK("LeftBrace"), TK("Print"), Num(mark), TK("Semicolon")>>
    \o [j \in 1..(3 * Len(params)) |->
           <<TK("Print"), Id(params[((j - 1) \div 3) + 1]),
             TK("Semicolon")>>[((j - 1) % 3) + 1]]
    \o <<TK("Return")>> \o result \o <<TK("Semicolon"), TK("RightBrace")>>

\* What c() yields: nil, a number, or a function of no, one or two parameters.
Callees ==
    [nil |-> <<TK("Nil")>>, number |-> <<Num(6)>>, f0 |-> <<Id(<<"f", "0">>)>>,
     f1 |-> <<Id(<<"f", "1">>)>>, f2 |-> <<Id(<<"f", "2">>)>>]

\* The functions f0, f1, f2, x, y and c, which print 3, 4, 5, 1, 2 and 9 when
\* called, and the call c()(), c()(x()) or c()(x(), y());
CallTokens(program) ==
    FunTokens(<<"f", "0">>, <<>>, 3, <<TK("Nil")>>)
    \o FunTokens(<<"f", "1">>, <<<<"a">>>>, 4, <<TK("Nil")>>)
    \o FunTokens(<<"f", "2">>, <<<<"a">>, <<"b">>>>, 5, <<TK("Nil")>>)
    \o FunTokens(<<"x">>, <<>>, 1, <<Num(7)>>)
    \o FunTokens(<<"y">>, <<>>, 2, <<Num(8)>>)
    \o FunTokens(<<"c">>, <<>>, 9, Callees[program.callee])
    \o <<Id(<<"c">>), TK("LeftParen"), TK("RightParen"), TK("LeftParen")>>
    \o SubSeq(<<Id(<<"x">>), TK("LeftParen"), TK("RightParen"), TK("Comma"),
                Id(<<"y">>), TK("LeftParen"), TK("RightParen")>>,
              1, IF program.args = 0 THEN 0 ELSE 4 * program.args - 1)
    \o <<TK("RightParen"), TK("Semicolon")>>

\* fun ok() { { var x = 1; } }
\* fun ret() { var x = 1; { { return x; } } }
\* fun err() { var x = 1; { { nil(); } } }
\* { var y = 5; ok(); print y; print ret(); print y; err(); print y; }
BlockTokens ==
    LET call(name) == <<Id(name), TK("LeftParen"), TK("RightParen")>>
        fun(name, body) ==
            <<TK("Fun")>> \o call(name) \o <<TK("LeftBrace")>> \o body
                \o <<TK("RightBrace")>>
        x == <<TK("Var"), Id(<<"x">>), TK("Equal"), Num(1), TK("Semicolon")>>
        nested(stmt) ==
            <<TK("LeftBrace"), TK("LeftBrace")>> \o stmt
                \o <<TK("Semicolon"), TK("RightBrace"), TK("RightBrace")>>
        y == <<TK("Print"), Id(<<"y">>), TK("Semicolon")>>
    IN  fun(<<"o", "k">>, <<TK("LeftBrace")>> \o x \o <<TK("RightBrace")>>)
        \o fun(<<"r", "e", "t">>, x \o nested(<<TK("Return"), Id(<<"x">>)>>))
        \o fun(<<"e", "r", "r">>,
               x \o nested(<<TK("Nil"), TK("LeftParen"), TK("RightParen")>>))
        \o <<TK("LeftBrace"), TK("Var"), Id(<<"y">>), TK("Equal"), Num(5), TK("Semicolon")>>
        \o call(<<"o", "k">>) \o <<TK("Semicolon")>> \o y
        \o <<TK("Print")>> \o call(<<"r", "e", "t">>) \o <<TK("Semicolon")>> \o y
        \o call(<<"e", "r", "r">>) \o <<TK("Semicolon")>> \o y
        \o <<TK("RightBrace")>>

\* What is done with return:
\*   fun f() { while (true) { if (true) { { return 1; } } print 8; } print 8; }
\*   print f(); print 2;
\*   fun g() { return 1; print 8; } fun f() { print g(); return 2; print 8; }
\*   print f();
\*   return 1;
\*   while (true) { if (true) return; }
ReturnTokens ==
    LET call(name) == <<Id(name), TK("LeftParen"), TK("RightParen")>>
        fun(name, body) ==
            <<TK("Fun")>> \o call(name) \o <<TK("LeftBrace")>> \o body
                \o <<TK("RightBrace")>>
        print(expr) == <<TK("Print")>> \o expr \o <<TK("Semicolon")>>
        return(expr) == <<TK("Return")>> \o expr \o <<TK("Semicolon")>>
        while(body) ==
            <<TK("While"), TK("LeftParen"), TK("True"), TK("RightParen"), TK("LeftBrace")>>
                \o body \o <<TK("RightBrace")>>
        if(stmt) == <<TK("If"), TK("LeftParen"), TK("True"), TK("RightParen")>> \o stmt
    IN  [nested |->
            fun(<<"f">>,
                while(if(<<TK("LeftBrace"), TK("LeftBrace")>> \o return(<<Num(1)>>)
                             \o <<TK("RightBrace"), TK("RightBrace")>>)
                      \o print(<<Num(8)>>))
                    \o print(<<Num(8)>>))
                \o print(call(<<"f">>)) \o print(<<Num(2)>>),
         nearest |->
            fun(<<"g">>, return(<<Num(1)>>) \o print(<<Num(8)>>))
                \o fun(<<"f">>, print(call(<<"g">>)) \o return(<<Num(2)>>)
                                    \o print(<<Num(8)>>))
                \o print(call(<<"f">>)),
         top |-> return(<<Num(1)>>),
         top_nested |-> while(if(return(<<>>)))]

\* What is done with a name a that a block declares again after a function
\* that uses it:
\*   var a = 1; { fun show() { print a; } show(); var a = 2; show(); }
\*   { var a = 1; { fun show() { print a; } show(); var a = 2; show(); print a; } }
\*   { var a = 1; { fun set() { a = 3; } var a = 2; set(); print a; } print a; }
StaticTokens ==
    LET var(n) == <<TK("Var"), Id(<<"a">>), TK("Equal"), Num(n), TK("Semicolon")>>
        call == <<Id(<<"f">>), TK("LeftParen"), TK("RightParen"), TK("Semicolon")>>
        fun(body) ==
            <<TK("Fun"), Id(<<"f">>), TK("LeftParen"), TK("RightParen"), TK("LeftBrace")>>
                \o body \o <<TK("Semicolon"), TK("RightBrace")>>
        print == <<TK("Print"), Id(<<"a">>), TK("Semicolon")>>
        show == <<TK("LeftBrace")>> \o fun(<<TK("Print"), Id(<<"a">>)>>) \o call
                    \o var(2) \o call
    IN  [example |-> var(1) \o show \o <<TK("RightBrace")>>,
         local |-> <<TK("LeftBrace")>> \o var(1) \o show \o print
                       \o <<TK("RightBrace"), TK("RightBrace")>>,
         write |-> <<TK("LeftBrace")>> \o var(1) \o <<TK("LeftBrace")>>
                       \o fun(<<Id(<<"a">>), TK("Equal"), Num(3)>>) \o var(2) \o call
                       \o print \o <<TK("RightBrace")>> \o print \o <<TK("RightBrace")>>]

\* The n-th declaration of a: var a = n; or fun a() { return n; } or
\* class a { mn() {} }
DeclarationTokens(kind, n) ==
    CASE kind = "var" -> <<TK("Var"), Id(<<"a">>), TK("Equal"), Num(n), TK("Semicolon")>>
      [] kind = "fun" ->
            <<TK("Fun"), Id(<<"a">>), TK("LeftParen"), TK("RightParen"), TK("LeftBrace"),
              TK("Return"), Num(n), TK("Semicolon"), TK("RightBrace")>>
      [] kind = "class" ->
            <<TK("Class"), Id(<<"a">>), TK("LeftBrace"),
              Id(<<"m", DigitChars[n + 1]>>), TK("LeftParen"), TK("RightParen"),
              TK("LeftBrace"), TK("RightBrace"), TK("RightBrace")>>

\* Two declarations of the name a, of the kinds first and second, at the top
\* level followed by print a; or in a block; or the parameters of
\* fun f(a, a) {}; or the parameter and the variable of fun f(a) { var a = 1; }
DuplicateTokens(program) ==
    CASE program.scope = "global" ->
            DeclarationTokens(program.first, 1) \o DeclarationTokens(program.second, 2)
                \o <<TK("Print"), Id(<<"a">>), TK("Semicolon")>>
      [] program.scope = "local" ->
            <<TK("LeftBrace")>> \o DeclarationTokens(program.first, 1)
                \o DeclarationTokens(program.second, 2) \o <<TK("RightBrace")>>
      [] program.scope = "parameters" ->
            <<TK("Fun"), Id(<<"f">>), TK("LeftParen"), Id(<<"a">>), TK("Comma"),
              Id(<<"a">>), TK("RightParen"), TK("LeftBrace"), TK("RightBrace")>>
      [] program.scope = "body" ->
            <<TK("Fun"), Id(<<"f">>), TK("LeftParen"), Id(<<"a">>), TK("RightParen"),
              TK("LeftBrace")>> \o DeclarationTokens(program.second, 2)
                \o <<TK("RightBrace")>>

\* The places of a return statement, written R:
\*   top                R
\*   block              { R }
\*   branch             if (true) R
\*   function           fun f() { R }
\*   loop               fun f() { while (true) { R } }
\*   method             class A { m() { R } }
\*   init               class A { init() { R } }
\*   init_branch        class A { init() { if (true) { R } } }
\*   init_nested        class A { init() { fun g() { R } } }
\*   after_function     fun f() { } R
\*   after_class        class A { init() { } m() { } } R
\*   after_nested       fun f() { fun g() { } R }
\*   init_after_nested  class A { init() { fun g() { } R } }
\*   method_after_init  class A { init() { } m() { R } }
\*   init_after_method  class A { m() { } init() { R } }
ReturnPlaces(R) ==
    LET braces(body) == <<TK("LeftBrace")>> \o body \o <<TK("RightBrace")>>
        method(name, body) ==
            <<Id(name), TK("LeftParen"), TK("RightParen")>> \o braces(body)
        fun(name, body) == <<TK("Fun")>> \o method(name, body)
        class(methods) == <<TK("Class"), Id(<<"A">>)>> \o braces(methods)
        if(stmt) == <<TK("If"), TK("LeftParen"), TK("True"), TK("RightParen")>> \o stmt
        while(stmt) ==
            <<TK("While"), TK("LeftParen"), TK("True"), TK("RightParen")>> \o stmt
        f == <<"f">>
        g == <<"g">>
        m == <<"m">>
    IN  [top |-> R,
         block |-> braces(R),
         branch |-> if(R),
         function |-> fun(f, R),
         loop |-> fun(f, while(braces(R))),
         method |-> class(method(m, R)),
         init |-> class(method(INIT, R)),
         init_branch |-> class(method(INIT, if(braces(R)))),
         init_nested |-> class(method(INIT, fun(g, R))),
         after_function |-> fun(f, <<>>) \o R,
         after_class |-> class(method(INIT, <<>>) \o method(m, <<>>)) \o R,
         after_nested |-> fun(f, fun(g, <<>>) \o R),
         init_after_nested |-> class(method(INIT, fun(g, <<>>) \o R)),
         method_after_init |-> class(method(INIT, <<>>) \o method(m, R)),
         init_after_method |-> class(method(m, <<>>) \o method(INIT, R))]

\* return; or return 1; in one of the places
PlacedReturnTokens(program) ==
    ReturnPlaces(IF program.value
                 THEN <<TK("Return"), Num(1), TK("Semicolon")>>
                 ELSE <<TK("Return"), TK("Semicolon")>>)[program.place]

\* Programs that print before the place of an error:
\*   parse             print 1; print ;
\*   parse_block       print 1; { print 2; 1 + ; }
\*   parse_first       ) ; print 1;
\*   resolve           print 1; return;
\*   resolve_block     print 1; { var a = a; }
\*   resolve_function  print 1; fun f() { var a = 1; var a = 2; } print 2;
\*   runtime           print 1; print nil + 1; print 2;
BrokenTokens ==
    LET print(expr) == <<TK("Print")>> \o expr \o <<TK("Semicolon")>>
        var(expr) == <<TK("Var"), Id(<<"a">>), TK("Equal")>> \o expr \o <<TK("Semicolon")>>
        braces(body) == <<TK("LeftBrace")>> \o body \o <<TK("RightBrace")>>
    IN  [parse |-> print(<<Num(1)>>) \o print(<<>>),
         parse_block |->
            print(<<Num(1)>>)
                \o braces(print(<<Num(2)>>) \o <<Num(1), TK("Plus"), TK("Semicolon")>>),
         parse_first |-> <<TK("RightParen"), TK("Semicolon")>> \o print(<<Num(1)>>),
         resolve |-> print(<<Num(1)>>) \o <<TK("Return"), TK("Semicolon")>>,
         resolve_block |-> print(<<Num(1)>>) \o braces(var(<<Id(<<"a">>)>>)),
         resolve_function |->
            print(<<Num(1)>>)
                \o <<TK("Fun"), Id(<<"f">>), TK("LeftParen"), TK("RightParen")>>
                \o braces(var(<<Num(1)>>) \o var(<<Num(2)>>))
                \o print(<<Num(2)>>),
         runtime |->
            print(<<Num(1)>>) \o print(<<TK("Nil"), TK("Plus"), Num(1)>>)
                \o print(<<Num(2)>>)]

\* The files that :load can read: f holds var l = 6; and g holds { alone.
Files ==
    (<<"f">> :> <<TK("Var"), Id(<<"l">>), TK("Equal"), Num(6), TK("Semicolon")>>)
        @@ (<<"g">> :> <<TK("LeftBrace")>>)

\* print clock();
ClockTokens ==
    <<TK("Print"), Id(CLOCK), TK("LeftParen"), TK("RightParen"), TK("Semicolon")>>

\* class A {} var a = A(); a.p1 = 1; ... a.pn = n; print a;
PropertiesTokens(n) ==
    <<TK("Class"), Id(<<"A">>), TK("LeftBrace"), TK("RightBrace"),
      TK("Var"), Id(<<"a">>), TK("Equal"), Id(<<"A">>), TK("LeftParen"),
      TK("RightParen"), TK("Semicolon")>>
    \o [j \in 1..(6 * n) |->
           <<Id(<<"a">>), TK("Dot"), Id(<<"p", DigitChars[((j - 1) \div 6) + 2]>>),
             TK("Equal"), Num(((j - 1) \div 6) + 1),
             TK("Semicolon")>>[((j - 1) % 6) + 1]]
    \o <<TK("Print"), Id(<<"a">>), TK("Semicolon")>>

\* The operands of the binary operators: 0, 6, "s", nil and true.
Operands ==
    [zero |-> Num(0), six |-> Num(6), string |-> Str(<<"s">>), nil |-> TK("Nil"),
     true |-> TK("True")]

\* print left operator right;
ArithTokens(program) ==
    <<TK("Print"), Operands[program.left], TK(program.operator), Operands[program.right],
      TK("Semicolon")>>

\* The operands of and and or: those, and false.
LogicalOperands == Operands @@ [false |-> TK("False")]

\* fun r() { print 9; return right; } print left operator r();
LogicalTokens(program) ==
    FunTokens(<<"r">>, <<>>, 9, <<LogicalOperands[program.right]>>)
    \o <<TK("Print"), LogicalOperands[program.left], TK(program.operator),
         Id(<<"r">>), TK("LeftParen"), TK("RightParen"), TK("Semicolon")>>

\* The programs that evaluate one expression.
ExprPrograms ==
    [name : {"Arith"}, operator : {"Minus", "Star", "Slash"},
     left : DOMAIN Operands, right : DOMAIN Operands]
        \cup [name : {"Logical"}, operator : {"And", "Or"},
              left : DOMAIN LogicalOperands, right : DOMAIN LogicalOperands]

\* The programs that are run.
Programs ==
    [name : {"Counter", "Shared", "Properties"}, n : 1..MaxCalls]
        \cup [name : {"Late", "Clock", "Block"}]
        \cup [name : {"Init"}, body : DOMAIN InitBodies, use : DOMAIN InitUses]
        \cup [name : {"Local"}, use : DOMAIN LocalTokens]
        \cup [name : {"Global"}, use : DOMAIN GlobalTokens]
        \cup [name : {"Return"}, use : DOMAIN ReturnTokens]
        \cup [name : {"Static"}, use : DOMAIN StaticTokens]
        \cup [name : {"Broken"}, at : DOMAIN BrokenTokens]
        \cup [name : {"PlacedReturn"}, place : DOMAIN ReturnPlaces(<<>>),
              value : BOOLEAN]
        \cup [name : {"Duplicate"}, scope : {"global", "local"},
              first : {"var", "fun", "class"}, second : {"var", "fun", "class"}]
        \cup [name : {"Duplicate"}, scope : {"parameters"}, first : {"var"},
              second : {"var"}]
        \cup [name : {"Duplicate"}, scope : {"body"}, first : {"var"},
              second : {"var", "fun", "class"}]
        \cup [name : {"Call"}, callee : DOMAIN Callees, args : 0..2]

\* The tokens of a program.
ProgramTokens(program) ==
    CASE program.name = "Counter" -> CounterTokens(program.n)
      [] program.name = "Shared" -> SharedTokens(program.n)
      [] program.name = "Properties" -> PropertiesTokens(program.n)
      [] program.name = "Late" -> LateTokens
      [] program.name = "Clock" -> ClockTokens
      [] program.name = "Block" -> BlockTokens
      [] program.name = "Init" -> InitTokens(program.body, program.use)
      [] program.name = "Local" -> LocalTokens[program.use]
      [] program.name = "Global" -> GlobalTokens[program.use]
      [] program.name = "Return" -> ReturnTokens[program.use]
      [] program.name = "Static" -> StaticTokens[program.use]
      [] program.name = "Duplicate" -> DuplicateTokens(program)
      [] program.name = "PlacedReturn" -> PlacedReturnTokens(program)
      [] program.name = "Broken" -> BrokenTokens[program.at]
      [] program.name = "File" -> Files[program.file]
      [] program.name = "Call" -> CallTokens(program)
      [] program.name = "Arith" -> ArithTokens(program)
      [] program.name = "Logical" -> LogicalTokens(program)

\* The times SystemTime::now reports, in seconds since the epoch.
Clocks == {<<17, 1>>, <<25, 1>>}

\* The RandomState a process's HashMaps draw.
HashSeeds == {0, 1}

\* run_file up to Parser::new, in a process whose AST_ID_SEQ is at ast_id_seq
run_file(program, ast_id_seq) ==
    [Parser_new(ScannerItems(ProgramTokens(program)), FALSE)
     EXCEPT !.ast_id_seq = ast_id_seq]

\* The end of a run of handle_parser_outcome: its report is kept.
finished(run, interpreter, diagnostics, result) ==
    [run EXCEPT !.phase = "done",
                !.interpreter = interpreter,
                !.reports = Append(@, [diagnostics |-> diagnostics,
                                       result |-> result,
                                       printed |-> IF interpreter = <<>> THEN <<>>
                                                   ELSE interpreter[1].out])]

\* The start of a process that runs one of the programs.
RunInitOf(programs) ==
    /\ impl = "none" /\ source = <<>> /\ scanner = <<>> /\ tokens = <<>>
    /\ exhausted = TRUE
    /\ stmts = <<>>
    /\ outcome = <<>>
    /\ \E program \in programs, time \in Clocks, hash_seed \in HashSeeds :
           /\ parser = run_file(program, 0)
           /\ pipeline = [program |-> program, run |-> 1, phase |-> "parse",
                          clock |-> time, hash_seed |-> hash_seed,
                          interpreter |-> <<>>, resolved |-> <<>>,
                          interpreted |-> <<>>, next |-> 1, reports |-> <<>>]

\* handle_parser_outcome that goes on to the resolver and the interpreter
\* whatever the parser and the resolver returned
Resolve_past_errors ==
    /\ pipeline.phase = "parse"
    /\ Len(outcome) = 2
    /\ \E I \in {Interpreter_new(parser.ast_id_seq, pipeline.clock, pipeline.hash_seed)} :
       \E resolved \in {resolve(Resolver_new(I.locals), outcome[1])} :
           pipeline' = [pipeline EXCEPT !.phase = "interpret",
                                        !.interpreter = <<[I EXCEPT !.locals = resolved.locals]>>,
                                        !.resolved = <<resolved>>,
                                        !.next = 1]
    /\ UNCHANGED <<parser, stmts, outcome>>
    /\ UNCHANGED scanVars

\* handle_parser_outcome: the parser's errors, Interpreter::new and the resolver
Resolve ==
    /\ pipeline.phase = "parse"
    /\ Len(outcome) = 2
    /\ \E I \in {Interpreter_new(parser.ast_id_seq, pipeline.clock, pipeline.hash_seed)} :
       \E resolved \in {IF outcome[2] = <<>>
                        THEN resolve(Resolver_new(I.locals), outcome[1])
                        ELSE [ok |-> FALSE, errors |-> <<>>, locals |-> <<>>]} :
           pipeline' =
               IF outcome[2] # <<>>
               THEN finished(pipeline, <<I>>, outcome[2], "Failed")
               ELSE IF ~resolved.ok
               THEN finished([pipeline EXCEPT !.resolved = <<resolved>>],
                             <<[I EXCEPT !.locals = resolved.locals]>>,
                             resolved.errors, "Failed")
               ELSE [pipeline EXCEPT !.phase = "interpret",
                                     !.interpreter = <<[I EXCEPT !.locals = resolved.locals]>>,
                                     !.resolved = <<resolved>>,
                                     !.next = 1]
    /\ UNCHANGED <<parser, stmts, outcome>>
    /\ UNCHANGED scanVars

\* interpret that goes on with the next statement after a runtime error
InterpretStmt_past_errors ==
    /\ pipeline.phase = "interpret"
    /\ pipeline.next <= Len(outcome[1])
    /\ \E done \in {eval_stmt(pipeline.interpreter[1], outcome[1][pipeline.next])} :
           pipeline' =
               CASE done.cf \in {"Ok", "Err"} ->
                        [pipeline EXCEPT !.interpreter = <<done.I>>, !.next = @ + 1]
                 [] done.cf = "Return" ->
                        finished(pipeline, <<[done.I EXCEPT !.panicked = <<"unreachable">>]>>,
                                 <<>>, "Panicked")
                 [] done.cf = "Panic" ->
                        finished(pipeline, <<done.I>>, <<>>, "Panicked")
    /\ UNCHANGED <<parser, stmts, outcome>>
    /\ UNCHANGED scanVars

\* Interpreter::interpret: one turn of the loop of eval_stmts, and the match
\* on what the statement yields
InterpretStmt ==
    /\ pipeline.phase = "interpret"
    /\ pipeline.next <= Len(outcome[1])
    /\ \E done \in {eval_stmt(pipeline.interpreter[1], outcome[1][pipeline.next])} :
           pipeline' =
               CASE done.cf = "Ok" ->
                        [pipeline EXCEPT !.interpreter = <<done.I>>, !.next = @ + 1]
                 [] done.cf = "Err" ->
                        finished([pipeline EXCEPT
                                      !.interpreted = <<[cf |-> "Err", v |-> done.v]>>],
                                 <<done.I>>, <<RuntimeError_to_string(done.v)>>, "Failed")
                 [] done.cf = "Return" ->
                        finished(pipeline, <<[done.I EXCEPT !.panicked = <<"unreachable">>]>>,
                                 <<>>, "Panicked")
                 [] done.cf = "Panic" ->
                        finished(pipeline, <<done.I>>, <<>>, "Panicked")
    /\ UNCHANGED <<parser, stmts, outcome>>
    /\ UNCHANGED scanVars

\* Interpreter::interpret returns Ok(()) and handle_parser_outcome true
InterpretReturn ==
    /\ pipeline.phase = "interpret"
    /\ pipeline.next > Len(outcome[1])
    /\ pipeline' = finished([pipeline EXCEPT
                                 !.interpreted = <<[cf |-> "Ok", v |-> <<>>]>>],
                            pipeline.interpreter, <<>>, "Ok")
    /\ UNCHANGED <<parser, stmts, outcome>>
    /\ UNCHANGED scanVars

\* The second run_file of the process, on the same source: AST_ID_SEQ goes on
\* from where the first run left it. A panic has ended the process.
Rerun ==
    /\ pipeline.phase = "done"
    /\ pipeline.run = 1
    /\ pipeline.interpreter[1].panicked = <<>>
    /\ \E time \in Clocks, hash_seed \in HashSeeds :
           pipeline' = [pipeline EXCEPT !.run = 2, !.phase = "parse",
                                        !.clock = time, !.hash_seed = hash_seed,
                                        !.interpreter = <<>>, !.resolved = <<>>,
                                        !.interpreted = <<>>, !.next = 1]
    /\ parser' = run_file(pipeline.program, pipeline.interpreter[1].ast_id_seq)
    /\ stmts' = <<>>
    /\ outcome' = <<>>
    /\ UNCHANGED scanVars

RunInit == RunInitOf(Programs)

RunNext == ParseDecl \/ ParseReturn \/ Resolve \/ InterpretStmt \/ InterpretReturn \/ Rerun

SpecRun == RunInit /\ [][RunNext]_vars

ExprInit == RunInitOf(ExprPrograms)

\* Runs of the programs that are one expression statement or print statement.
SpecExpr == ExprInit /\ [][RunNext]_vars

\* ------------------------------------------------------ src/user/repl.rs
\* Repl::start on the lines of a session. pipeline holds what it holds for
\* run_file, with the Repl's one interpreter, the number of lines read as run
\* and the Repl's current_src, as tokens; a report is kept for every call of
\* handle_parser_outcome. current_src is emptied by the next read_line.

\* a = n; o.f = n;
PairTokens(n) ==
    <<Id(<<"a">>), TK("Equal"), Num(n), TK("Semicolon"),
      Id(<<"o">>), TK("Dot"), Id(<<"f">>), TK("Equal"), Num(n), TK("Semicolon")>>

RECURSIVE PairsTokens(_, _)
\* a = from; o.f = from; ... a = to; o.f = to;
PairsTokens(from, to) ==
    IF from > to THEN <<>> ELSE PairTokens(from) \o PairsTokens(from + 1, to)

\* The pairs of assignments of the second input.
Pairs == 3

\* The lines of a session:
\*   var a = 0; class A { } var o = A(); o.f = 0;       (in one line, or in two)
\*   var c = 7; a = 1; o.f = 1; ... a = 3; o.f = 3; var b = 9;
\*       with nil(); after the pair `fail`, or without it if fail > Pairs
\*   print a; print o.f; print c; print b;
SessionLines(program) ==
    LET open == <<TK("Var"), Id(<<"a">>), TK("Equal"), Num(0), TK("Semicolon"),
                  TK("Class"), Id(<<"A">>), TK("LeftBrace")>>
        close == <<TK("RightBrace"),
                   TK("Var"), Id(<<"o">>), TK("Equal"), Id(<<"A">>), TK("LeftParen"),
                   TK("RightParen"), TK("Semicolon"),
                   Id(<<"o">>), TK("Dot"), Id(<<"f">>), TK("Equal"), Num(0),
                   TK("Semicolon")>>
        assignments ==
            <<TK("Var"), Id(<<"c">>), TK("Equal"), Num(7), TK("Semicolon")>>
            \o PairsTokens(1, IF program.fail <= Pairs THEN program.fail ELSE Pairs)
            \o (IF program.fail <= Pairs
                THEN <<TK("Nil"), TK("LeftParen"), TK("RightParen"), TK("Semicolon")>>
                ELSE <<>>)
            \o PairsTokens(program.fail + 1, Pairs)
            \o <<TK("Var"), Id(<<"b">>), TK("Equal"), Num(9), TK("Semicolon")>>
        prints ==
            <<TK("Print"), Id(<<"a">>), TK("Semicolon"),
              TK("Print"), Id(<<"o">>), TK("Dot"), Id(<<"f">>), TK("Semicolon"),
              TK("Print"), Id(<<"c">>), TK("Semicolon"),
              TK("Print"), Id(<<"b">>), TK("Semicolon")>>
    IN  (IF program.split THEN <<open, close>> ELSE <<open \o close>>)
        \o <<assignments, prints>>

\* The sessions of the Repl.
Sessions == [name : {"Session"}, fail : 0..(Pairs + 1), split : BOOLEAN]

\* The lines of the prompts. A line is the tokens of its source, or its text
\* when it holds no token.
\*   continuation       fun f() {     print 1;     }     f();
\*   eof_pending        print 1;     { print 2;
\*   commands           {     ` :lex`     print 3; }     :ast     :help     :bogus
\*                      :     and an empty line
\*   exit               print 1;     :exit     print 2;
\*   exit_pending       {     :exit
\*   error              1 + ;     print 4;
\*   mixed              ) ; {     print 5;
\*   load               {     :load f     print l; }
\*   load_broken        {     :load g     }
\*   load_missing       :load h     print 7;
\*   load_no_argument   {     :load
PromptLines ==
    LET src(ts) == [source |-> ts]
        text(chars) == [text |-> chars \o <<"\n">>]
        print(expr) == <<TK("Print")>> \o expr \o <<TK("Semicolon")>>
        open == <<TK("LeftBrace")>>
        close == <<TK("RightBrace")>>
        load == <<":", "l", "o", "a", "d">>
    IN  [continuation |->
            <<src(<<TK("Fun"), Id(<<"f">>), TK("LeftParen"), TK("RightParen")>> \o open),
              src(print(<<Num(1)>>)), src(close),
              src(<<Id(<<"f">>), TK("LeftParen"), TK("RightParen"), TK("Semicolon")>>)>>,
         eof_pending |-> <<src(print(<<Num(1)>>)), src(open \o print(<<Num(2)>>))>>,
         commands |->
            <<src(open), text(<<" ", ":", "l", "e", "x">>),
              src(print(<<Num(3)>>) \o close), text(<<":", "a", "s", "t">>),
              text(<<":", "h", "e", "l", "p">>), text(<<":", "b", "o", "g", "u", "s">>),
              text(<<":">>), text(<<>>)>>,
         exit |->
            <<src(print(<<Num(1)>>)), text(<<":", "e", "x", "i", "t">>),
              src(print(<<Num(2)>>))>>,
         exit_pending |-> <<src(open), text(<<":", "e", "x", "i", "t", " ">>)>>,
         error |-> <<src(<<Num(1), TK("Plus"), TK("Semicolon")>>), src(print(<<Num(4)>>))>>,
         mixed |->
            <<src(<<TK("RightParen"), TK("Semicolon")>> \o open), src(print(<<Num(5)>>))>>,
         load |->
            <<src(open), text(load \o <<" ", "f">>),
              src(print(<<Id(<<"l">>)>>) \o close)>>,
         load_broken |-> <<src(open), text(load \o <<" ", " ", "g">>), src(close)>>,
         load_missing |-> <<text(load \o <<" ", "h">>), src(print(<<Num(7)>>))>>,
         load_no_argument |-> <<src(open), text(load)>>]

\* The prompts of the Repl.
Prompts == [name : {"Prompt"}, use : DOMAIN PromptLines]

\* The lines that stdin holds before its end.
ReplInput(program) ==
    IF program.name = "Session"
    THEN [i \in DOMAIN SessionLines(program) |-> [source |-> SessionLines(program)[i]]]
    ELSE PromptLines[program.use]

RECURSIVE trim_start(_)
\* str::trim_start
trim_start(text) ==
    IF text # <<>> /\ is_ascii_whitespace(text[1])
    THEN trim_start(SubSeq(text, 2, Len(text)))
    ELSE text

RECURSIVE trim_end(_)
\* str::trim_end
trim_end(text) ==
    IF text # <<>> /\ is_ascii_whitespace(text[Len(text)])
    THEN trim_end(SubSeq(text, 1, Len(text) - 1))
    ELSE text

\* str::trim
trim(text) == trim_end(trim_start(text))

\* str::strip_prefix, an Option
strip_prefix(text, prefix) ==
    IF text # <<>> /\ text[1] = prefix THEN <<SubSeq(text, 2, Len(text))>> ELSE <<>>

RECURSIVE split_ascii_whitespace(_, _, _)
\* str::split_ascii_whitespace: the words of text from i on, after the
\* characters `word` of the word that is being read
split_ascii_whitespace(text, i, word) ==
    IF i > Len(text) THEN (IF word = <<>> THEN <<>> ELSE <<word>>)
    ELSE IF is_ascii_whitespace(text[i])
    THEN (IF word = <<>> THEN <<>> ELSE <<word>>)
             \o split_ascii_whitespace(text, i + 1, <<>>)
    ELSE split_ascii_whitespace(text, i + 1, Append(word, text[i]))

\* The text of a line: a line of source holds no `:`.
LineText(line) == IF "text" \in DOMAIN line THEN line.text ELSE <<>>

\* The tokens of a line: a line of text holds none.
LineTokens(line) == IF "source" \in DOMAIN line THEN line.source ELSE <<>>

\* line.trim().strip_prefix(':') of Repl::start, an Option
raw_cmd(line) == strip_prefix(trim(LineText(line)), ":")

\* should_continue_repl that is content with one error that allows continuation
should_continue_repl_any(errors) ==
    /\ errors # <<>>
    /\ \E i \in 1..Len(errors) : ParseError_allows_continuation(errors[i])

\* Repl::should_continue_repl
should_continue_repl(errors) ==
    /\ errors # <<>>
    /\ \A i \in 1..Len(errors) : ParseError_allows_continuation(errors[i])

\* Repl::new
ReplInit ==
    /\ impl = "none" /\ source = <<>> /\ scanner = <<>> /\ tokens = <<>>
    /\ exhausted = TRUE
    /\ parser = <<>>
    /\ stmts = <<>>
    /\ outcome = <<<<>>, <<>>>>
    /\ \E program \in Sessions \cup Prompts, time \in Clocks, hash_seed \in HashSeeds :
           pipeline = [program |-> program, run |-> 0, phase |-> "read",
                       clock |-> time, hash_seed |-> hash_seed,
                       interpreter |-> <<Interpreter_new(0, time, hash_seed)>>,
                       current_src |-> <<>>,
                       show_lex |-> FALSE, show_ast |-> FALSE, done |-> FALSE,
                       line |-> <<>>, is_eof |-> FALSE, loading |-> FALSE,
                       resolved |-> <<>>, interpreted |-> <<>>, next |-> 1,
                       reports |-> <<>>]

\* Repl::read_line: the next line of stdin, or the empty line and is_eof at
\* its end; self.done = is_eof && self.current_src.is_empty(). run counts the
\* calls.
read_line(repl) ==
    LET input == ReplInput(repl.program)
        is_eof == repl.run >= Len(input)
    IN  [repl EXCEPT !.run = @ + 1,
                     !.line = IF is_eof THEN [text |-> <<>>] ELSE input[repl.run + 1],
                     !.is_eof = is_eof,
                     !.done = is_eof /\ repl.current_src = <<>>]

\* Repl::handle_command but for its load arm
handle_command(repl, cmd) ==
    LET first == IF cmd = <<>> THEN <<>> ELSE cmd[1]
    IN  CASE first = <<"e", "x", "i", "t">> -> [repl EXCEPT !.done = TRUE]
          [] first \in {<<"a", "s", "t">>, <<"t", "r", "e", "e">>} ->
                [repl EXCEPT !.show_ast = ~@]
          [] first = <<"l", "e", "x">> -> [repl EXCEPT !.show_lex = ~@]
          [] OTHER -> repl

\* Repl::start: while !self.done, read_line of a line that is no command, the
\* accumulation of the line and Parser::new with repl_mode. A panic has ended
\* the process.
ReplLine ==
    /\ pipeline.phase = "read"
    /\ ~pipeline.done
    /\ pipeline.interpreter[1].panicked = <<>>
    /\ \E read \in {read_line(pipeline)} :
           /\ raw_cmd(read.line) = <<>>
           /\ \E src \in {pipeline.current_src \o LineTokens(read.line)} :
                  /\ parser' = [Parser_new(ScannerItems(src), TRUE)
                                EXCEPT !.ast_id_seq = pipeline.interpreter[1].ast_id_seq]
                  /\ pipeline' = [read EXCEPT !.phase = "parse",
                                              !.current_src = src,
                                              !.resolved = <<>>, !.interpreted = <<>>,
                                              !.next = 1]
    /\ stmts' = <<>>
    /\ outcome' = <<>>
    /\ UNCHANGED scanVars

\* Repl::start: while !self.done, read_line of a line that is a command,
\* handle_command and continue. The load arm is run_file up to Parser::new on
\* the Repl's interpreter, the error of a file that is not there, or the
\* panic of cmd[1] when no file is named.
ReplCommand ==
    /\ pipeline.phase = "read"
    /\ ~pipeline.done
    /\ pipeline.interpreter[1].panicked = <<>>
    /\ \E read \in {read_line(pipeline)} :
           /\ raw_cmd(read.line) # <<>>
           /\ \E cmd \in {split_ascii_whitespace(raw_cmd(read.line)[1], 1, <<>>)} :
                  IF cmd # <<>> /\ cmd[1] = <<"l", "o", "a", "d">>
                  THEN IF Len(cmd) < 2
                       THEN /\ pipeline' = [read EXCEPT
                                                !.interpreter[1].panicked = <<"index">>]
                            /\ UNCHANGED <<parser, stmts, outcome>>
                       ELSE IF cmd[2] \notin DOMAIN Files
                       THEN /\ pipeline' = read
                            /\ UNCHANGED <<parser, stmts, outcome>>
                       ELSE /\ parser' = run_file([name |-> "File", file |-> cmd[2]],
                                                  pipeline.interpreter[1].ast_id_seq)
                            /\ pipeline' = [read EXCEPT !.phase = "parse",
                                                        !.loading = TRUE,
                                                        !.resolved = <<>>,
                                                        !.interpreted = <<>>,
                                                        !.next = 1]
                            /\ stmts' = <<>>
                            /\ outcome' = <<>>
                  ELSE /\ pipeline' = handle_command(read, cmd)
                       /\ UNCHANGED <<parser, stmts, outcome>>
    /\ UNCHANGED scanVars

\* Repl::start after Parser::parse: the wait for more input, or
\* handle_parser_outcome on the Repl's interpreter up to the resolver; and
\* run_file after Parser::parse, which is handle_parser_outcome at once.
ReplResolve ==
    /\ pipeline.phase = "parse"
    /\ Len(outcome) = 2
    /\ \E I \in {[pipeline.interpreter[1] EXCEPT !.ast_id_seq = parser.ast_id_seq]} :
       \E resolved \in {IF outcome[2] = <<>>
                        THEN resolve(Resolver_new(I.locals), outcome[1])
                        ELSE [ok |-> FALSE, errors |-> <<>>, locals |-> <<>>]} :
           pipeline' =
               IF /\ ~pipeline.loading
                  /\ outcome[2] # <<>> /\ should_continue_repl(outcome[2])
                  /\ ~pipeline.is_eof
               THEN [pipeline EXCEPT !.phase = "read", !.interpreter = <<I>>]
               ELSE IF outcome[2] # <<>>
               THEN finished(pipeline, <<I>>, outcome[2], "Failed")
               ELSE IF ~resolved.ok
               THEN finished([pipeline EXCEPT !.resolved = <<resolved>>],
                             <<[I EXCEPT !.locals = resolved.locals]>>,
                             resolved.errors, "Failed")
               ELSE [pipeline EXCEPT !.phase = "interpret",
                                     !.interpreter = <<[I EXCEPT !.locals = resolved.locals]>>,
                                     !.resolved = <<resolved>>,
                                     !.next = 1]
    /\ UNCHANGED <<parser, stmts, outcome>>
    /\ UNCHANGED scanVars

\* Repl::start after handle_parser_outcome: self.current_src = "".into(); and
\* handle_command after run_file, which leaves current_src alone.
ReplHandled ==
    /\ pipeline.phase = "done"
    /\ pipeline.interpreter[1].panicked = <<>>
    /\ pipeline' = [pipeline EXCEPT
                        !.phase = "read",
                        !.current_src = IF pipeline.loading THEN @ ELSE <<>>,
                        !.loading = FALSE]
    /\ UNCHANGED <<parser, stmts, outcome>>
    /\ UNCHANGED scanVars

\* Repl::start: self.done ends the loop and start returns Ok(()).
ReplExit ==
    /\ pipeline.phase = "read"
    /\ pipeline.done
    /\ pipeline.interpreter[1].panicked = <<>>
    /\ pipeline' = [pipeline EXCEPT !.phase = "exited"]
    /\ UNCHANGED <<parser, stmts, outcome>>
    /\ UNCHANGED scanVars

ReplNext ==
    \/ ReplLine \/ ReplCommand
    \/ ParseDecl \/ ParseReturn \/ ReplResolve
    \/ InterpretStmt \/ InterpretReturn
    \/ ReplHandled \/ ReplExit

SpecRepl == ReplInit /\ [][ReplNext]_vars

\* The Repl is a sequential program whose reads of stdin return: it takes
\* its next step whenever it has one.
SpecReplFair == SpecRepl /\ WF_vars(ReplNext)


\* ----------------------------------------------------- claims C4, C5

RECURSIVE StmtHasDummy(_)
\* A statement that is, or holds at any depth, a Dummy statement.
StmtHasDummy(s) ==
    CASE s.kind = "Dummy" -> TRUE
      [] s.kind = "Block" -> \E i \in 1..Len(s.stmts) : StmtHasDummy(s.stmts[i])
      [] s.kind = "FunDecl" ->
            \E i \in 1..Len(s.decl.body) : StmtHasDummy(s.decl.body[i])
      [] s.kind = "ClassDecl" ->
            \E m \in 1..Len(s.methods) :
                \E i \in 1..Len(s.methods[m].body) : StmtHasDummy(s.methods[m].body[i])
      [] s.kind = "If" ->
            \/ StmtHasDummy(s.then_branch)
            \/ s.else_branch # <<>> /\ StmtHasDummy(s.else_branch[1])
      [] s.kind = "While" -> StmtHasDummy(s.body)
      [] OTHER -> FALSE

ForestHasDummy(forest) == \E i \in 1..Len(forest) : StmtHasDummy(forest[i])

\* C4: a statement forest that holds a Dummy statement at any depth comes with
\* at least one recorded parse error, so a parse that returns no error returns
\* no Dummy statement.
C4_DummyHasDiagnostic ==
    /\ ForestHasDummy(stmts) => parser.diagnostics # <<>>
    /\ Len(outcome) = 2 => (outcome[2] = <<>> => ~ForestHasDummy(outcome[1]))

\* Parser::parse has returned a forest whose only Dummy statement lies inside a
\* function body.
C4_Witness ==
    /\ Len(outcome) = 2
    /\ outcome[2] # <<>>
    /\ Len(outcome[1]) = 1
    /\ outcome[1][1].kind = "FunDecl"
    /\ StmtHasDummy(outcome[1][1])

\* C5: Parser::parse returns for every token stream: every call of parse_decl
\* returns having consumed a token, so the loop of parse_program, which is not
\* entered at Eof, takes at most as many turns as the scanner has items; and
\* the parser never asks the scanner for a token once Eof is the current token.
C5_ParseTerminates ==
    /\ ~parser.stalled
    /\ ~parser.panicked
    /\ Len(stmts) < parser.advances
    /\ parser.advances <= Len(parser.scanner.items)
    /\ parser.scanner.next > Len(parser.scanner.items) <=> is_at_end(parser)

\* Parser::parse has returned after a parse_decl that failed inside a block and
\* synchronized up to the block's end.
C5_Witness ==
    /\ Len(outcome) = 2
    /\ Len(outcome[1]) = 1
    /\ outcome[1][1].kind = "Block"
    /\ StmtHasDummy(outcome[1][1])
    /\ parser.advances = Len(parser.scanner.items)

\* ------------------------------------------------ claims on the pipeline

\* C1: in a program that passed resolution, no read or assignment of an
\* identifier with a recorded distance fails: walking that many enclosing
\* steps from the current environment reaches a frame that binds the name, so
\* Environment::read_at and Environment::assign_at never panic.
C1_RecordedDistancesAreBound ==
    \A i \in 1..Len(pipeline.interpreter) :
        pipeline.interpreter[i].panicked \notin {<<"read_at">>, <<"assign_at">>}

\* The report a run of a closure program has to give.
ClosureReport(program, report) ==
    /\ report.diagnostics = <<>>
    /\ report.result = "Ok"
    /\ report.printed =
           CASE program.name = "Counter" -> [j \in 1..program.n |-> usize_to_string(j)]
             [] program.name = "Shared" -> <<usize_to_string(program.n)>>
             [] program.name = "Late" -> <<<<"2">>>>

\* C2: a closure is the frame that was current at the function's declaration,
\* held by reference: the counter of make() yields 1, 2, ..., n on n successive
\* calls, a function sees the assignment the enclosing block made after the
\* function's declaration, and a function sees the last assignment another
\* closure over the same frame made.
C2_ClosuresShareTheirFrame ==
    \A i \in 1..Len(pipeline.reports) :
        pipeline.program.name \in {"Counter", "Shared", "Late"}
            => ClosureReport(pipeline.program, pipeline.reports[i])

\* The counter has yielded 1, 2, 3 on three successive calls.
C2_Witness ==
    /\ pipeline.program.name = "Counter"
    /\ pipeline.phase = "done"
    /\ pipeline.reports[Len(pipeline.reports)].printed = <<<<"1">>, <<"2">>, <<"3">>>>

\* The last line an initializer program prints when its initializer fails not.
InitPrinted(program) ==
    CASE program.use = "instantiate" ->
            <<"<", "o", "b", "j", "e", "c", "t", " ", "A", " ", "{", "}", ">">>
      [] program.use = "direct" -> <<"t", "r", "u", "e">>
      [] program.use = "other" -> <<"f", "a", "l", "s", "e">>

\* C3: a call of a class initializer, through the class or as instance.init(),
\* yields the instance its closure binds as this at distance 0, whatever the
\* body completed with or returned; an error of the body is propagated; and
\* every initializer that is called has this bound there.
C3_InitYieldsThis ==
    /\ \A i \in 1..Len(pipeline.interpreter) :
       \A c \in 1..Len(pipeline.interpreter[i].init_calls) :
           LET call == pipeline.interpreter[i].init_calls[c]
           IN  /\ call.this # <<>>
               /\ call.body \in {"Ok", "Return", "Err"}
               /\ call.body \in {"Ok", "Return"} =>
                      /\ call.cf = "Ok"
                      /\ call.v.type = "Object"
                      /\ call.v = call.this[1]
               /\ call.body = "Err" => call.cf = "Err"
    /\ \A i \in 1..Len(pipeline.reports) :
           pipeline.program.name = "Init" =>
               LET report == pipeline.reports[i]
               IN  IF pipeline.program.body = "error"
                   THEN /\ report.result = "Failed"
                        /\ Len(report.diagnostics) = 1
                        /\ report.printed = <<>>
                   ELSE /\ report.result = "Ok"
                        /\ report.printed[Len(report.printed)] = InitPrinted(pipeline.program)

\* instance.init() with a body of return; has yielded the instance.
C3_Witness ==
    /\ pipeline.program.name = "Init"
    /\ pipeline.program.body = "return"
    /\ pipeline.program.use = "direct"
    /\ pipeline.phase = "done"
    /\ pipeline.reports[Len(pipeline.reports)].printed = <<<<"t", "r", "u", "e">>>>
    /\ \E c \in 1..Len(pipeline.interpreter[1].init_calls) :
           /\ pipeline.interpreter[1].init_calls[c].body = "Return"
           /\ pipeline.interpreter[1].init_calls[c].v = LoxValue_Object(1)

\* C6: two runs of parse, resolve and interpret on the same source, each with
\* a fresh interpreter, give the same diagnostics, the same result and the same
\* printed lines.
C6_RunsAgree ==
    Len(pipeline.reports) = 2 => pipeline.reports[1] = pipeline.reports[2]

\* ------------------------------------------ claims on the parse errors

\* The errors Parser::parse gave back, or has recorded so far.
ParseErrors ==
    {parser.diagnostics[i] : i \in 1..Len(parser.diagnostics)}
        \cup (IF Len(outcome) = 2 THEN {outcome[2][i] : i \in 1..Len(outcome[2])} ELSE {})

\* C11: ParseError::allows_continuation is true for an UnexpectedToken error
\* whose offending token is Eof and for a ScanError that wraps
\* UnterminatedString, and false for every other parse error: an unexpected
\* token that is not Eof, an invalid assignment target (and the other errors of
\* the variant Error), an unexpected character, an unparseable number.
C11_ContinuationClassification ==
    \A e \in ParseErrors :
        CASE e.kind = "UnexpectedToken" ->
                 ParseError_allows_continuation(e) = (e.offending.kind = "Eof")
          [] e.kind = "ScanError" ->
                 ParseError_allows_continuation(e) = (e.error = <<"UnterminatedString">>)
          [] e.kind = "Error" -> ~ParseError_allows_continuation(e)

\* Parser::parse has returned one eligible error of each kind, an unterminated
\* string and an unexpected Eof.
C11_Witness ==
    /\ Len(outcome) = 2
    /\ Len(outcome[2]) = 2
    /\ outcome[2][1].kind = "ScanError"
    /\ outcome[2][1].error = <<"UnterminatedString">>
    /\ outcome[2][2].kind = "UnexpectedToken"
    /\ outcome[2][2].offending.kind = "Eof"
    /\ \A i \in 1..2 : ParseError_allows_continuation(outcome[2][i])

\* Parser::parse has returned errors that are not eligible: an invalid
\* assignment target and an unparseable number.
C11_WitnessNotEligible ==
    /\ Len(outcome) = 2
    /\ \E i \in 1..Len(outcome[2]) :
           outcome[2][i].kind = "Error" /\ ~ParseError_allows_continuation(outcome[2][i])
    /\ \E i \in 1..Len(outcome[2]) :
           /\ outcome[2][i].kind = "ScanError"
           /\ outcome[2][i].error = <<"InvalidNumberLiteral">>
           /\ ~ParseError_allows_continuation(outcome[2][i])
\* ------------------------------------------ claims on the resolver

\* The reference to a in the initializer of `var a = a;`, inside the block or
\* at the top level.
InitializerRead ==
    IF pipeline.program.use = "read_in_initializer"
    THEN outcome[1][1].stmts[1].init[1]
    ELSE outcome[1][1].init[1]

\* C12: resolving a read of a variable inside its own initializer in a local
\* scope, { var a = a; }, records the error 'Can't read local variable in its
\* own initializer' at the reference, records no distance for the reference and
\* makes resolve return ok = false, so nothing is run; the same var a = a; at
\* the top level gives no resolver error (and no distance).
C12_ReadInOwnInitializer ==
    (/\ pipeline.program.name = "Local"
     /\ pipeline.program.use \in {"read_in_initializer", "global_read_in_initializer"}
     /\ pipeline.resolved # <<>>) =>
        LET r == pipeline.resolved[1]
            read == InitializerRead
        IN  /\ read.kind = "Var"
            /\ read.name.id \notin DOMAIN r.locals
            /\ read.name.id \notin DOMAIN pipeline.interpreter[1].locals
            /\ IF pipeline.program.use = "read_in_initializer"
               THEN /\ ~r.ok
                    /\ r.errors =
                           <<[span |-> read.name.span,
                              message |-> "Can't read local variable in its own initializer"]>>
                    /\ pipeline.phase = "done"
                    /\ pipeline.reports[Len(pipeline.reports)].result = "Failed"
                    /\ pipeline.reports[Len(pipeline.reports)].printed = <<>>
               ELSE r.ok /\ r.errors = <<>>

\* The resolver has rejected { var a = a; }.
C12_Witness ==
    /\ pipeline.program.name = "Local"
    /\ pipeline.program.use = "read_in_initializer"
    /\ pipeline.resolved # <<>>
    /\ ~pipeline.resolved[1].ok
    /\ pipeline.phase = "done"
\* ------------------------------------------ claims on expressions

\* The number a numeric operand stands for.
OperandNumber(operand) == IF operand = "zero" THEN 0 ELSE 6

\* left operator right, for numbers whose quotient is whole.
ArithResult(program) ==
    LET left == OperandNumber(program.left)
        right == OperandNumber(program.right)
    IN  CASE program.operator = "Minus" -> left - right
          [] program.operator = "Star" -> left * right
          [] program.operator = "Slash" -> left \div right

\* C13: for the binary operators -, * and /, if either operand is not a number
\* the result is RuntimeError::UnsupportedType at the operator's span, whatever
\* the other operand is, the number 0 included; / on two numbers whose right
\* one is 0 gives RuntimeError::ZeroDivision at the operator's span; in every
\* other case the numeric result is returned.
C13_NumberOperators ==
    (pipeline.program.name = "Arith" /\ pipeline.interpreted # <<>>) =>
        LET program == pipeline.program
            returned == pipeline.interpreted[1]
            operator == outcome[1][1].expr.operator
            report == pipeline.reports[Len(pipeline.reports)]
        IN  IF ~{program.left, program.right} \subseteq {"zero", "six"}
            THEN /\ returned.cf = "Err"
                 /\ returned.v.kind = "UnsupportedType"
                 /\ returned.v.span = operator.span
            ELSE IF program.operator = "Slash" /\ program.right = "zero"
            THEN /\ returned.cf = "Err"
                 /\ returned.v.kind = "ZeroDivision"
                 /\ returned.v.span = operator.span
            ELSE /\ returned.cf = "Ok"
                 /\ report.printed =
                        <<IF ArithResult(program) < 0
                          THEN <<"-">> \o usize_to_string(0 - ArithResult(program))
                          ELSE usize_to_string(ArithResult(program))>>
\* ------------------------------------------ claims on properties

RECURSIVE Chain(_)
\* A class, its superclass, the superclass of that, and so on.
Chain(class) ==
    IF class.super_class = <<>> THEN <<class>>
    ELSE <<class>> \o Chain(class.super_class[1])

\* C14: a property read on an instance returns the instance's own field of
\* that name if there is one, otherwise the method of that name of the first
\* class along the chain (the instance's class, then its superclass, and so on)
\* that has one, bound to that instance, otherwise UndefinedProperty; a
\* property write stores into the own fields of that instance and changes no
\* class, no environment and no other instance.
C14_PropertyLookup ==
    (pipeline.program.name = "Class" /\ pipeline.last # <<>>) =>
        LET last == pipeline.last[1]
            I == pipeline.interpreter[1]
            instance == last.before.instances[last.instance]
            chain == Chain(instance.constructor)
            owners == {k \in 1..Len(chain) : last.name \in DOMAIN chain[k].methods}
        IN  IF last.op = "set"
            THEN /\ I.instances =
                        [last.before.instances EXCEPT
                            ![last.instance].properties =
                                [name \in DOMAIN @ \cup {last.name} |->
                                    IF name = last.name THEN last.returned.v ELSE @[name]]]
                 /\ I.envs = last.before.envs
            ELSE /\ I.instances = last.before.instances
                 /\ IF last.name \in DOMAIN instance.properties
                    THEN /\ last.returned.cf = "Ok"
                         /\ last.returned.v = instance.properties[last.name]
                    ELSE IF owners # {}
                    THEN LET owner == CHOOSE k \in owners : \A j \in owners : k <= j
                             method == chain[owner].methods[last.name]
                         IN  /\ last.returned.cf = "Ok"
                             /\ last.returned.v.type = "Function"
                             /\ last.returned.v.v.decl = method.decl
                             /\ I.envs[last.returned.v.v.closure] =
                                    [enclosing |-> <<method.closure>>,
                                     locals |-> Insert(<<>>, THIS,
                                                       LoxValue_Object(last.instance))]
                    ELSE /\ last.returned.cf = "Err"
                         /\ last.returned.v.kind = "UndefinedProperty"

\* A method that the class and its superclass both declare has been read on
\* an instance that has no field of that name.
C14_Witness ==
    /\ pipeline.program.name = "Class"
    /\ pipeline.last # <<>>
    /\ pipeline.last[1].op = "get"
    /\ pipeline.last[1].returned.cf = "Ok"
    /\ pipeline.last[1].returned.v.type = "Function"
    /\ LET class == pipeline.last[1].before.instances[pipeline.last[1].instance].constructor
       IN  /\ pipeline.last[1].name \in DOMAIN class.methods
           /\ class.super_class # <<>>
           /\ pipeline.last[1].name \in DOMAIN class.super_class[1].methods
\* ------------------------------------------ claims on names without distance

\* The names that are looked up and assigned.
UnresolvedNames == {<<"a">>, <<"f">>, <<"z">>}

\* Identifiers of the interpreter I that have no recorded distance.
Unresolved(I) ==
    {LoxIdent_new(Span_new(0, 0), name, id) :
        name \in UnresolvedNames, id \in (0..I.ast_id_seq) \ DOMAIN I.locals}

\* What the programs that use a name before its block declares it report.
GlobalReports ==
    [shadow_read |-> [result |-> "Ok", printed |-> <<"0">>],
     hidden_read |-> [result |-> "Failed", printed |-> <<>>],
     shadow_write |-> [result |-> "Ok", printed |-> <<"1", "2">>],
     hidden_write |-> [result |-> "Failed", printed |-> <<>>]]

C15_WitnessUndefined ==
    /\ pipeline.program.name = "Global"
    /\ pipeline.program.use = "hidden_write"
    /\ pipeline.phase = "done"
    /\ pipeline.interpreted # <<>>
    /\ pipeline.interpreted[1].cf = "Err"
\* ------------------------------------------ claims on calls

\* The number of parameters of what c() yields, -1 if it is not callable.
CalleeArity == [nil |-> -1, number |-> -1, f0 |-> 0, f1 |-> 1, f2 |-> 2]

\* What c()(x(), y()) with the first `args` arguments prints: 9 for the
\* callee, 1 and 2 for the arguments, and, if the callee is invoked, its mark
\* and its arguments 7 and 8.
CallPrinted(program) ==
    <<"9">> \o SubSeq(<<"1", "2">>, 1, program.args)
    \o (IF CalleeArity[program.callee] = program.args
        THEN <<<<"3">>, <<"4", "7">>, <<"5", "7", "8">>>>[program.args + 1]
        ELSE <<>>)

C16_WitnessNotCallable ==
    /\ pipeline.program.name = "Call"
    /\ pipeline.program.callee = "nil"
    /\ pipeline.program.args = 2
    /\ pipeline.phase = "done"
    /\ pipeline.reports[Len(pipeline.reports)].printed = <<"9", "1", "2">>
    /\ pipeline.reports[Len(pipeline.reports)].result = "Failed"
\* ------------------------------------------ claims on and and or

\* The value an operand stands for.
OperandValue ==
    [zero |-> LoxValue_Number(<<0, 0>>), six |-> LoxValue_Number(<<6, 0>>),
     string |-> LoxValue_String(<<"s">>), nil |-> LoxValue_Nil,
     true |-> LoxValue_Boolean(TRUE), false |-> LoxValue_Boolean(FALSE)]

\* The operands that are falsey: false and nil.
Falsey == {"false", "nil"}

\* The left operand decides: it is falsey under and, truthy under or.
LeftDecides(operator, left) ==
    \/ operator = "And" /\ left \in Falsey
    \/ operator = "Or" /\ left \notin Falsey

\* C17: `a and b` yields the value of a without evaluating b when a is false
\* or nil and otherwise evaluates b and yields its value; `a or b` yields the
\* value of a without evaluating b when a is neither false nor nil and
\* otherwise evaluates b and yields its value; what is yielded is the
\* operand's value itself, not a boolean made from it.
C17_ShortCircuit ==
    (pipeline.program.name = "Logical" /\ pipeline.interpreter # <<>>) =>
        LET program == pipeline.program
            I == pipeline.interpreter[1]
        IN  /\ \A operator \in {"And", "Or"} :
               \A left \in DOMAIN OperandValue, right \in DOMAIN OperandValue :
                   eval_logical_expr(
                       I, [operator |-> [kind |-> operator],
                           left |-> [kind |-> "Lit", span |-> Span_new(0, 0),
                                     value |-> OperandValue[left]],
                           right |-> [kind |-> "Lit", span |-> Span_new(0, 0),
                                      value |-> OperandValue[right]]])
                       = CfOk(I, IF LeftDecides(operator, left)
                                 THEN OperandValue[left] ELSE OperandValue[right])
            /\ pipeline.phase = "done" =>
                   LET report == pipeline.reports[Len(pipeline.reports)]
                   IN  /\ report.result = "Ok"
                       /\ report.printed =
                              IF LeftDecides(program.operator, program.left)
                              THEN <<to_string(I, OperandValue[program.left])>>
                              ELSE <<<<"9">>, to_string(I, OperandValue[program.right])>>

\* `6 or r()` has printed 6 and not called r, whose operand is nil.
C17_Witness ==
    /\ pipeline.program.name = "Logical"
    /\ pipeline.program.operator = "Or"
    /\ pipeline.program.left = "six"
    /\ pipeline.program.right = "nil"
    /\ pipeline.phase = "done"
    /\ pipeline.reports[Len(pipeline.reports)].printed = <<<<"6">>>>

\* `0 and r()` has called r and printed its string: 0 is truthy.
C17_WitnessRight ==
    /\ pipeline.program.name = "Logical"
    /\ pipeline.program.operator = "And"
    /\ pipeline.program.left = "zero"
    /\ pipeline.program.right = "string"
    /\ pipeline.phase = "done"
    /\ pipeline.reports[Len(pipeline.reports)].printed = <<<<"9">>, <<"s">>>>
\* ------------------------------------------ claims on for statements

\* The expression is the number literal n.
IsNumber(expr, n) == expr.kind = "Lit" /\ expr.value = LoxValue_Number(<<n, 0>>)

\* The statement is the initializer of the for statement.
IsForInit(stmt, for) ==
    IF for.init = "var"
    THEN stmt.kind = "VarDecl" /\ stmt.name.name = <<"a">>
    ELSE stmt.kind = "Expr" /\ IsNumber(stmt.expr, 1)

\* The expression is the condition of the for statement, `true` if it has none.
IsForCond(expr, for) ==
    IF for.cond THEN IsNumber(expr, 2)
    ELSE expr.kind = "Lit" /\ expr.value = LoxValue_Boolean(TRUE)

\* The statement is the increment of the for statement.
IsForIncr(stmt) == stmt.kind = "Expr" /\ IsNumber(stmt.expr, 3)

\* The statement is the body of the for statement.
IsForBody(stmt, for) ==
    IF for.body = "expr" THEN stmt.kind = "Expr" /\ IsNumber(stmt.expr, 4)
    ELSE stmt.kind = "Block" /\ stmt.stmts = <<>>

\* The statement is a Block of the body and, if there is one, the increment.
IsForBlock(stmt, for) ==
    /\ stmt.kind = "Block"
    /\ Len(stmt.stmts) = IF for.incr THEN 2 ELSE 1
    /\ IsForBody(stmt.stmts[1], for)
    /\ for.incr => IsForIncr(stmt.stmts[2])

\* The statement is the While of the for statement, whose body is `body`.
IsForWhile(stmt, for, body(_, _)) ==
    /\ stmt.kind = "While"
    /\ IsForCond(stmt.cond, for)
    /\ body(stmt.body, for)

\* The statement is a Block of the initializer, if there is one, and the While.
IsInitBlock(stmt, for, body(_, _)) ==
    /\ stmt.kind = "Block"
    /\ Len(stmt.stmts) = IF for.init = "none" THEN 1 ELSE 2
    /\ for.init # "none" => IsForInit(stmt.stmts[1], for)
    /\ IsForWhile(stmt.stmts[Len(stmt.stmts)], for, body)

\* The for statements Parser::parse has returned from, with what it returned.
ParsedFor ==
    {for \in ForClauses :
        /\ Len(outcome) = 2
        /\ parser.scanner.items = ScannerItems(ForTokens(for))}

\* The statement is a Block of body and increment if the for statement has an
\* increment, and the body itself if it has none.
IsForBlockOrBody(stmt, for) ==
    IF for.incr THEN IsForBlock(stmt, for) ELSE IsForBody(stmt, for)

\* C18 as stated: for every combination of present or omitted INIT, COND and
\* INCR, the for statement is parsed into a Block of INIT (when present) and a
\* While whose condition is COND, or true, and whose body is a Block of BODY
\* followed by INCR (when present).
C18_ForIsBlockOfWhile ==
    \A for \in ParsedFor :
        /\ outcome[2] = <<>>
        /\ Len(outcome[1]) = 1
        /\ IsInitBlock(outcome[1][1], for, IsForBlock)

\* C18: the for statement is parsed, without any For node, into a While whose
\* condition is COND, or the literal true when COND is omitted, and whose body
\* is a Block of BODY followed by INCR when INCR is present and BODY itself
\* when it is omitted; the statement is a Block of INIT followed by that While
\* when INIT is present, and that While itself when INIT is omitted.
C18_ForDesugaring ==
    \A for \in ParsedFor :
        /\ outcome[2] = <<>>
        /\ Len(outcome[1]) = 1
        /\ IF for.init = "none"
           THEN IsForWhile(outcome[1][1], for, IsForBlockOrBody)
           ELSE IsInitBlock(outcome[1][1], for, IsForBlockOrBody)

\* `for (;;3) 4;` has been parsed: no initializer, no condition, an increment.
C18_Witness ==
    /\ [init |-> "none", cond |-> FALSE, incr |-> TRUE, body |-> "expr"] \in ParsedFor
    /\ outcome[1][1].kind = "While"
    /\ outcome[1][1].body.kind = "Block"
    /\ Len(outcome[1][1].body.stmts) = 2

\* `for (var a = 1; 2; 3) {}` has been parsed: every clause is present.
C18_WitnessAll ==
    /\ [init |-> "var", cond |-> TRUE, incr |-> TRUE, body |-> "block"] \in ParsedFor
    /\ outcome[1][1].kind = "Block"
\* ------------------------------------------ claims on runtime errors

\* The global frame of the Repl's interpreter.
ReplGlobals == pipeline.interpreter[1].envs[pipeline.interpreter[1].globals].locals

\* The pairs of assignments that come before the failing call.
PairsDone == IF pipeline.program.fail <= Pairs THEN pipeline.program.fail ELSE Pairs

\* The text of a number below ten.
Digit(n) == <<DigitChars[n + 1]>>

\* C19: a runtime error aborts the Interpreter::interpret call at the failing
\* statement: the error is returned, no later statement of the call is
\* executed, and what the statements before it did (the definition of c, the
\* assignments to a, the writes of o.f) is there for the later interpret call
\* on the same interpreter.
C19_ErrorAbortsTheCall ==
    (pipeline.program.name = "Session" /\ pipeline.phase = "done") =>
        LET handled == Len(pipeline.reports)
            report == pipeline.reports[handled]
            failing == pipeline.program.fail <= Pairs
        IN  /\ handled = 1 => report.result = "Ok"
            /\ handled = 2 =>
                   /\ report.result = IF failing THEN "Failed" ELSE "Ok"
                   /\ pipeline.interpreted # <<>>
                   /\ pipeline.interpreted[1].cf = IF failing THEN "Err" ELSE "Ok"
                   /\ failing => pipeline.interpreted[1].v.kind = "UnsupportedType"
                   /\ failing => pipeline.next = 2 * pipeline.program.fail + 2
                   /\ ReplGlobals[<<"a">>] = LoxValue_Number(<<PairsDone, 0>>)
                   /\ ReplGlobals[<<"c">>] = LoxValue_Number(<<7, 0>>)
                   /\ pipeline.interpreter[1].instances[1].properties[<<"f">>]
                          = LoxValue_Number(<<PairsDone, 0>>)
                   /\ (<<"b">> \in DOMAIN ReplGlobals) = ~failing
            /\ handled = 3 =>
                   /\ report.printed =
                          <<Digit(PairsDone), Digit(PairsDone), Digit(7)>>
                              \o (IF failing THEN <<>> ELSE <<Digit(9)>>)
                   /\ report.result = IF failing THEN "Failed" ELSE "Ok"
                   /\ pipeline.interpreted # <<>>
                   /\ failing => /\ pipeline.interpreted[1].cf = "Err"
                                  /\ pipeline.interpreted[1].v.kind = "UndefinedVariable"

\* The second input has failed after its first pair of assignments, and the
\* third input has printed what that pair assigned.
C19_Witness ==
    /\ pipeline.program.name = "Session"
    /\ pipeline.program.fail = 1
    /\ pipeline.phase = "done"
    /\ Len(pipeline.reports) = 3
    /\ pipeline.reports[2].result = "Failed"
    /\ pipeline.reports[3].printed = <<<<"1">>, <<"1">>, <<"7">>>>
\* ------------------------------------------ claims on the current environment

\* The user functions that the environments of the interpreter I bind.
BoundFunctions(I) ==
    UNION {{I.envs[env].locals[name].v :
               name \in {n \in DOMAIN I.envs[env].locals :
                            /\ I.envs[env].locals[n].type = "Function"
                            /\ I.envs[env].locals[n].v.callable = "LoxFunction"}}
           : env \in DOMAIN I.envs}

\* C20: Interpreter::eval_block leaves the current environment as it was
\* before the call, whether the statements complete, raise a Return or raise a
\* runtime error; so after a call of a user function the caller's environment
\* is current again, and after every Interpreter::interpret call, Ok or Err,
\* the current environment is the global frame.
C20_BlockRestoresEnvironment ==
    pipeline.interpreter # <<>> =>
        /\ \A current \in DOMAIN pipeline.interpreter[1].envs :
           \A fn \in BoundFunctions(pipeline.interpreter[1]) :
               LET I == [pipeline.interpreter[1] EXCEPT !.env = current]
                   args == [i \in 1..Len(fn.decl.params) |-> LoxValue_Number(<<7, 0>>)]
                   enclosed == Environment_new_enclosed(I, fn.closure)
                   body == eval_block(define_params(enclosed.I, enclosed.env,
                                                    fn.decl.params, args, 1),
                                      fn.decl.body, enclosed.env)
                   called == LoxFunction_call(I, fn, args)
               IN  /\ body.cf \in {"Ok", "Return", "Err"} => body.I.env = current
                   /\ called.cf \in {"Ok", "Err"} => called.I.env = current
        /\ (pipeline.phase = "done" /\ pipeline.interpreted # <<>>) =>
               pipeline.interpreter[1].env = pipeline.interpreter[1].globals
        /\ (pipeline.program.name = "Block" /\ pipeline.phase = "done") =>
               /\ pipeline.reports[Len(pipeline.reports)].printed
                      = <<<<"5">>, <<"1">>, <<"5">>>>
               /\ pipeline.interpreted # <<>>
               /\ pipeline.interpreted[1].cf = "Err"

\* The block has called a function that completes, one that returns from
\* inside two blocks and one that fails inside two blocks; its y was read
\* after the first two, and interpret has returned the error of the third.
C20_Witness ==
    /\ pipeline.program.name = "Block"
    /\ pipeline.phase = "done"
    /\ pipeline.interpreted # <<>>
    /\ pipeline.interpreted[1].cf = "Err"
    /\ Len(pipeline.reports[Len(pipeline.reports)].printed) = 3
    /\ \E fn \in BoundFunctions(pipeline.interpreter[1]) :
           LET enclosed == Environment_new_enclosed(pipeline.interpreter[1], fn.closure)
           IN  eval_block(enclosed.I, fn.decl.body, enclosed.env).cf = "Return"
\* ------------------------------------------ claims on the Return signal

\* What the programs with return statements report.
ReturnReports ==
    [nested |-> [result |-> "Ok", printed |-> <<<<"1">>, <<"2">>>>],
     nearest |-> [result |-> "Ok", printed |-> <<<<"1">>, <<"2">>>>],
     top |-> [result |-> "Failed", printed |-> <<>>],
     top_nested |-> [result |-> "Failed", printed |-> <<>>]]

\* C21: the Return signal of a return statement goes unchanged through the
\* enclosing block, if and while statements and is caught by the nearest
\* active call of a user function, which makes it the call's result and runs
\* nothing more of the body; no Return reaches the top level of
\* Interpreter::interpret, whose unreachable arm is never executed.
C21_ReturnIsCaughtByTheCall ==
    pipeline.interpreter # <<>> =>
        /\ pipeline.interpreter[1].panicked # <<"unreachable">>
        /\ (pipeline.program.name = "Return" /\ pipeline.phase = "done") =>
               LET report == pipeline.reports[Len(pipeline.reports)]
                   I == pipeline.interpreter[1]
               IN  /\ report.result = ReturnReports[pipeline.program.use].result
                   /\ report.printed = ReturnReports[pipeline.program.use].printed
                   /\ pipeline.program.use \in {"top", "top_nested"} =>
                          /\ pipeline.interpreted = <<>>
                          /\ pipeline.resolved # <<>>
                          /\ ~pipeline.resolved[1].ok
                   /\ pipeline.program.use = "nested" =>
                          LET f == I.envs[I.globals].locals[<<"f">>].v
                              enclosed == Environment_new_enclosed(I, f.closure)
                              while == eval_stmt([enclosed.I EXCEPT !.env = enclosed.env],
                                                 f.decl.body[1])
                              body == eval_block(enclosed.I, f.decl.body, enclosed.env)
                              called == LoxFunction_call(I, f, <<>>)
                          IN  /\ f.decl.body[1].kind = "While"
                              /\ while.cf = "Return"
                              /\ while.v = LoxValue_Number(<<1, 0>>)
                              /\ while.I.out = I.out
                              /\ body.cf = "Return"
                              /\ body.v = LoxValue_Number(<<1, 0>>)
                              /\ called.cf = "Ok"
                              /\ called.v = LoxValue_Number(<<1, 0>>)
                              /\ called.I.out = I.out

\* f has returned 1 from inside a block in an if in a while, and the program
\* has gone on after the call.
C21_Witness ==
    /\ pipeline.program.name = "Return"
    /\ pipeline.program.use = "nested"
    /\ pipeline.phase = "done"
    /\ pipeline.reports[Len(pipeline.reports)].printed = <<<<"1">>, <<"2">>>>

\* A return statement at the top level has been refused by the resolver.
C21_WitnessTopLevel ==
    /\ pipeline.program.name = "Return"
    /\ pipeline.program.use = "top"
    /\ pipeline.phase = "done"
    /\ pipeline.resolved # <<>>
    /\ ~pipeline.resolved[1].ok
\* ------------------------------------------ claims on static scoping

\* What the programs that declare a again after the function print.
StaticPrinted ==
    [example |-> <<<<"1">>, <<"1">>>>,
     local |-> <<<<"1">>, <<"1">>, <<"2">>>>,
     write |-> <<<<"2">>, <<"3">>>>]

\* The function f of the inner block of the programs local and write, and the
\* reference to a in its body.
StaticFunction == outcome[1][1].stmts[2].stmts[1]

StaticReference == StaticFunction.decl.body[1].expr.name

\* C22: a variable reference in a function body denotes on every call the
\* binding that was lexically visible at the reference when the function was
\* declared: a variable of the same name that an enclosing block declares
\* after the function changes neither what the calls read nor what they write.
C22_StaticScoping ==
    (pipeline.program.name = "Static" /\ pipeline.phase = "done") =>
        /\ pipeline.reports[Len(pipeline.reports)].result = "Ok"
        /\ pipeline.reports[Len(pipeline.reports)].printed
               = StaticPrinted[pipeline.program.use]
        /\ pipeline.program.use \in {"local", "write"} =>
               /\ StaticFunction.kind = "FunDecl"
               /\ StaticReference.name = <<"a">>
               /\ StaticReference.id \in DOMAIN pipeline.interpreter[1].locals
               /\ pipeline.interpreter[1].locals[StaticReference.id] = 2
        /\ pipeline.program.use = "example" =>
               LET reference == outcome[1][2].stmts[1].decl.body[1].expr.name
               IN  /\ reference.name = <<"a">>
                   /\ reference.id \notin DOMAIN pipeline.interpreter[1].locals

\* Both calls of the example have printed 1: the second one after the block
\* has declared its own a.
C22_Witness ==
    /\ pipeline.program.name = "Static"
    /\ pipeline.program.use = "example"
    /\ pipeline.phase = "done"
    /\ pipeline.reports[Len(pipeline.reports)].printed = <<<<"1">>, <<"1">>>>
    /\ \E env \in DOMAIN pipeline.interpreter[1].envs :
           /\ env # pipeline.interpreter[1].globals
           /\ <<"a">> \in DOMAIN pipeline.interpreter[1].envs[env].locals
           /\ pipeline.interpreter[1].envs[env].locals[<<"a">>] = LoxValue_Number(<<2, 0>>)

\* The function has assigned the outer block's a, not the inner block's.
C22_WitnessWrite ==
    /\ pipeline.program.name = "Static"
    /\ pipeline.program.use = "write"
    /\ pipeline.phase = "done"
    /\ pipeline.reports[Len(pipeline.reports)].printed = <<<<"2">>, <<"3">>>>
\* ------------------------------------------ claims on error recovery

\* The kinds of token that begin a declaration or statement.
SyncKinds == {"Class", "For", "Fun", "If", "Print", "Return", "Var", "While"}

\* The place of the parser's current token among the scanner's items.
Current(p) == p.scanner.next - 1

\* The parser p is at a synchronization point that it came to from the item
\* `from`: it has just consumed a `;` or is at a token of SyncKinds or at Eof,
\* and it has skipped no such token on the way.
Synchronized(p, from) ==
    LET items == p.scanner.items
        skipped == {j \in from..(Current(p) - 1) : items[j].kind # "Error"}
    IN  /\ Current(p) >= from
        /\ \/ p.current_token.kind \in SyncKinds \cup {"Eof"}
           \/ /\ p.prev_token.kind = "Semicolon"
              /\ skipped # {}
        /\ \A j \in skipped :
               /\ items[j].kind \notin SyncKinds \cup {"Eof"}
               /\ items[j].kind = "Semicolon" => \A k \in skipped : k <= j

\* C23: a call of parse_decl whose declaration fails to parse records the
\* error, yields a Dummy statement and leaves the parser at the first
\* synchronization point from the token it failed at: just after a `;`, or at
\* class, for, fun, if, print, return, var, while or Eof. Parsing goes on from
\* there: the well-formed declaration after the point comes out as its
\* statement and a second malformed one as a second Dummy with its own error.
C23_RecoveryAtSynchronizationPoint ==
    /\ (pipeline = <<>> /\ Len(outcome) = 0 /\ ~is_at_end(parser) /\ ~parser.panicked) =>
           LET failed == decl_production(parser)
               returned == parse_decl(parser)
           IN  (~failed.ok /\ ~returned.p.panicked) =>
                   /\ returned.stmt.kind = "Dummy"
                   /\ Len(returned.p.diagnostics) > Len(failed.p.diagnostics)
                   /\ returned.p.diagnostics[Len(failed.p.diagnostics) + 1] = failed.v
                   /\ \A i \in (Len(failed.p.diagnostics) + 2)..Len(returned.p.diagnostics) :
                          returned.p.diagnostics[i].kind = "ScanError"
                   /\ Synchronized(returned.p, Current(failed.p))
    /\ (pipeline = <<>> /\ Len(outcome) = 2) =>
           /\ parser.scanner.items = ScannerItems(
                  <<Num(1), TK("Plus"), TK("Semicolon"),
                    TK("Var"), Ident("a"), TK("Equal"), Num(1), TK("Semicolon")>>)
              => /\ Len(outcome[1]) = 2
                 /\ outcome[1][1].kind = "Dummy"
                 /\ outcome[1][2].kind = "VarDecl"
                 /\ Len(outcome[2]) = 1
           /\ parser.scanner.items = ScannerItems(
                  <<TK("RightParen"), Num(1), Num(2), TK("Print"), Num(3), TK("Semicolon"),
                    TK("RightParen"), TK("Semicolon")>>)
              => /\ Len(outcome[1]) = 3
                 /\ outcome[1][1].kind = "Dummy"
                 /\ outcome[1][2].kind = "Print"
                 /\ outcome[1][3].kind = "Dummy"
                 /\ Len(outcome[2]) = 2
                 /\ outcome[2][1].offending.span = Span_new(0, 1)
                 /\ outcome[2][2].offending.span = Span_new(12, 13)
           /\ parser.scanner.items = ScannerItems(
                  <<TK("LeftBrace"), Num(1), TK("Plus"), TK("Semicolon"),
                    TK("Print"), Num(3), TK("Semicolon"), TK("RightBrace")>>)
              => /\ Len(outcome[1]) = 1
                 /\ outcome[1][1].kind = "Block"
                 /\ Len(outcome[1][1].stmts) = 2
                 /\ outcome[1][1].stmts[1].kind = "Dummy"
                 /\ outcome[1][1].stmts[2].kind = "Print"
                 /\ Len(outcome[2]) = 1

\* `) 1 2 print 3; ) ;` has been parsed: a Dummy, the print statement that
\* follows the tokens skipped, and a second Dummy for the second `)`.
C23_Witness ==
    /\ pipeline = <<>>
    /\ Len(outcome) = 2
    /\ Len(outcome[1]) = 3
    /\ outcome[1][1].kind = "Dummy"
    /\ outcome[1][2].kind = "Print"
    /\ outcome[1][3].kind = "Dummy"
    /\ Len(outcome[2]) = 2
\* ------------------------------------------ claims on duplicate declarations

\* The global frame holds the second declaration of a.
SecondDefinition(I, kind) ==
    LET a == I.envs[I.globals].locals[<<"a">>]
    IN  CASE kind = "var" -> a = LoxValue_Number(<<2, 0>>)
          [] kind = "fun" ->
                /\ a.type = "Function"
                /\ a.v.callable = "LoxFunction"
                /\ a.v.decl.body[1].value[1].value = LoxValue_Number(<<2, 0>>)
          [] kind = "class" ->
                /\ a.type = "Function"
                /\ a.v.callable = "LoxClass"
                /\ DOMAIN a.v.methods = {<<"m", "2">>}

\* C24: a declaration (variable, function, class or parameter) of a name that
\* the innermost local scope already holds records a resolve error; two
\* declarations of a name at global scope record none, and at run time the
\* second definition takes the place of the first.
C24_DuplicateDeclarations ==
    (pipeline.program.name = "Duplicate" /\ pipeline.phase = "done") =>
        LET program == pipeline.program
            report == pipeline.reports[Len(pipeline.reports)]
        IN  /\ pipeline.resolved # <<>>
            /\ IF program.scope = "global"
               THEN /\ pipeline.resolved[1].ok
                    /\ pipeline.resolved[1].errors = <<>>
                    /\ report.result = "Ok"
                    /\ SecondDefinition(pipeline.interpreter[1], program.second)
                    /\ Len(report.printed) = 1
                    /\ program.second = "var" => report.printed = <<<<"2">>>>
               ELSE /\ ~pipeline.resolved[1].ok
                    /\ Len(pipeline.resolved[1].errors) = 1
                    /\ pipeline.resolved[1].errors[1].message
                           = "Can't shadow a identifier in the same scope"
                    /\ report.result = "Failed"
                    /\ pipeline.interpreted = <<>>

\* var a = 1; fun a() { return 2; } print a; has run: no resolve error, and a
\* is the function.
C24_Witness ==
    /\ pipeline.program.name = "Duplicate"
    /\ pipeline.program.scope = "global"
    /\ pipeline.program.first = "var"
    /\ pipeline.program.second = "fun"
    /\ pipeline.phase = "done"
    /\ pipeline.resolved # <<>>
    /\ pipeline.resolved[1].ok
    /\ pipeline.interpreter[1].envs[1].locals[<<"a">>].type = "Function"

\* fun f(a, a) {} has been refused by the resolver.
C24_WitnessParameters ==
    /\ pipeline.program.name = "Duplicate"
    /\ pipeline.program.scope = "parameters"
    /\ pipeline.phase = "done"
    /\ pipeline.resolved # <<>>
    /\ Len(pipeline.resolved[1].errors) = 1
\* ------------------------------------------------ claims on return statements

\* The places of a return statement outside every function and method body
OutsideFunctions == {"top", "block", "branch", "after_function", "after_class"}

\* The places whose nearest enclosing function is an init method
InsideInit == {"init", "init_branch", "init_after_nested", "init_after_method"}

\* The messages of the resolve errors recorded for the program
ResolveMessages ==
    [i \in DOMAIN pipeline.resolved[1].errors |-> pipeline.resolved[1].errors[i].message]

\* C25: a return outside every function and method body records 'Illegal
\* return statement', a return with a value whose nearest enclosing function
\* is an init method records 'Can't return value from class initializer', and
\* every other return records nothing: the bare return of init, the returns of
\* a function nested in init, and the returns that follow a nested function,
\* which are judged by the state in force before that function.
C25_ReturnErrors ==
    (pipeline.program.name = "PlacedReturn" /\ pipeline.phase = "done") =>
        LET program == pipeline.program
        IN  /\ pipeline.resolved # <<>>
            /\ ResolveMessages =
                   (CASE program.place \in OutsideFunctions ->
                            <<"Illegal return statement">>
                      [] program.place \in InsideInit /\ program.value ->
                            <<"Can't return value from class initializer">>
                      [] OTHER -> <<>>)
            /\ pipeline.resolved[1].ok = (ResolveMessages = <<>>)
            /\ pipeline.resolved[1].ok =>
                   pipeline.reports[Len(pipeline.reports)].result = "Ok"

\* class A { init() { fun g() { } return 1; } } has been refused: after the
\* nested function the initializer's state is back.
C25_Witness ==
    /\ pipeline.program.name = "PlacedReturn"
    /\ pipeline.program.place = "init_after_nested"
    /\ pipeline.program.value
    /\ pipeline.phase = "done"
    /\ pipeline.resolved # <<>>
    /\ Len(pipeline.resolved[1].errors) = 1

\* class A { init() { fun g() { return 1; } } } has been accepted and run.
C25_WitnessNested ==
    /\ pipeline.program.name = "PlacedReturn"
    /\ pipeline.program.place = "init_nested"
    /\ pipeline.program.value
    /\ pipeline.phase = "done"
    /\ pipeline.resolved # <<>>
    /\ pipeline.resolved[1].ok
\* --------------------------------------------------- claims on this and super

\* The places where no class declaration is open
OutsideClasses == {"top", "function", "after_class", "after_sub"}

\* The places whose innermost open class declares no superclass
InsideClass == {"class_method", "class_init", "class_nested", "inner_class",
                "after_inner_sub"}

\* The places whose innermost open class declares a superclass
InsideSubClass == {"sub_method", "sub_init", "sub_nested", "after_inner", "inner_sub",
                   "self"}

\* The messages the resolver records for the expression at the place
ThisSuperMessages(expr, place) ==
    (IF place = "self" THEN <<"Class can't inherit itself">> ELSE <<>>)
        \o (CASE place \in OutsideClasses /\ expr = "this" ->
                    <<"Illegal this expression, can't use this outside of a class">>
              [] place \in OutsideClasses /\ expr = "super" ->
                    <<"Illegal super expression, can't use super outside of a class">>
              [] place \in InsideClass /\ expr = "super" ->
                    <<"Illegal super expression, can't use super within a class with no superclass">>
              [] OTHER -> <<>>)

\* C26: this and super outside every class, super in a class without
\* superclass and a class that names itself as superclass each record their
\* error and no other; in the methods of a class with a superclass, functions
\* nested in them included, this and super record no error and the watched
\* identifier receives a distance; after a class declaration the class state
\* of before is in force again.
C26_ThisAndSuper ==
    (pipeline.program.name = "ThisSuper" /\ pipeline.phase = "done") =>
        LET program == pipeline.program
            resolved == pipeline.resolved[1]
        IN  /\ [i \in DOMAIN resolved.errors |-> resolved.errors[i].message]
                   = ThisSuperMessages(program.expr, program.place)
            /\ resolved.ok = (resolved.errors = <<>>)
            /\ program.place \in InsideSubClass =>
                   /\ Watched \in DOMAIN resolved.locals
                   /\ resolved.locals[Watched]
                          = (IF program.place = "sub_nested" THEN 2 ELSE 1)
                              + (IF program.expr = "super" THEN 1 ELSE 0)
            /\ pipeline.resolver.state.class = "None"
            /\ pipeline.resolver.scopes = <<>>

\* class B < A { m() { class C { n() { } } super.m; } } is resolved without
\* error: after the inner class the state of the subclass is back.
C26_Witness ==
    /\ pipeline.program.name = "ThisSuper"
    /\ pipeline.program.place = "after_inner"
    /\ pipeline.program.expr = "super"
    /\ pipeline.phase = "done"
    /\ pipeline.resolved[1].ok
    /\ pipeline.resolved[1].locals[Watched] = 2

\* class A { m() { super.m; } } is refused.
C26_WitnessNoSuperclass ==
    /\ pipeline.program.name = "ThisSuper"
    /\ pipeline.program.place = "class_method"
    /\ pipeline.program.expr = "super"
    /\ pipeline.phase = "done"
    /\ Len(pipeline.resolved[1].errors) = 1
\* ------------------------------------------------------ claims on assignment

\* The left sides that are a variable or a property
Targets == {"var", "get", "get_of_call"}

\* The parse of TARGET = 1; or TARGET = b = c; has returned.
ParsedAssignment(target, chain) ==
    /\ pipeline = <<>>
    /\ Len(outcome) = 2
    /\ parser.scanner.items = ScannerItems(AssignmentTokens(target, chain))

\* The expression is the variable name.
IsVar(expr, name) == expr.kind = "Var" /\ expr.name.name = <<name>>

\* The value of the assignment is 1, or the assignment of c to b.
IsAssignedValue(value, chain) ==
    IF chain
    THEN /\ value.kind = "Assignment"
         /\ value.name.name = <<"b">>
         /\ IsVar(value.value, "c")
    ELSE value.kind = "Lit" /\ value.value = LoxValue_Number(<<1, 0>>)

\* C27: when parse_assignment has parsed left = value, a left side Var(name)
\* gives Assignment(name, value) with the identifier of the Var, id included,
\* a left side Get(object, name) gives Set(object, name, value), and any
\* other left side gives the error 'Invalid assignment target' on the span of
\* the left side; the value is parsed by right recursion, so a = b = c is the
\* assignment to a of the assignment of c to b.
C27_AssignmentTargets ==
    /\ (pipeline = <<>> /\ Len(outcome) = 0 /\ ~is_at_end(parser) /\ ~parser.panicked) =>
           LET left == parse_or(parser)
           IN  (left.ok /\ is(left.p, "Equal")) =>
                   LET value == parse_assignment(advance(left.p))
                       returned == parse_assignment(parser)
                   IN  value.ok =>
                           CASE left.v.kind = "Var" ->
                                    /\ returned.ok
                                    /\ returned.v.kind = "Assignment"
                                    /\ returned.v.name = left.v.name
                                    /\ returned.v.value = value.v
                             [] left.v.kind = "Get" ->
                                    /\ returned.ok
                                    /\ returned.v.kind = "Set"
                                    /\ returned.v.object = left.v.object
                                    /\ returned.v.name = left.v.name
                                    /\ returned.v.value = value.v
                             [] OTHER ->
                                    /\ ~returned.ok
                                    /\ returned.v.kind = "Error"
                                    /\ returned.v.message = "Invalid assignment target"
                                    /\ returned.v.span = left.v.span
    /\ \A target \in DOMAIN AssignmentTargets, chain \in BOOLEAN :
           ParsedAssignment(target, chain) =>
               IF target \in Targets
               THEN /\ outcome[2] = <<>>
                    /\ Len(outcome[1]) = 1
                    /\ outcome[1][1].kind \in {"Expr", "Print"}
                    /\ IsAssignedValue(outcome[1][1].expr.value, chain)
                    /\ IF target = "var"
                       THEN /\ outcome[1][1].expr.kind = "Assignment"
                            /\ outcome[1][1].expr.name.name = <<"a">>
                            /\ chain =>
                                   /\ outcome[1][1].expr.name.id
                                          # outcome[1][1].expr.value.name.id
                                   /\ outcome[1][1].expr.value.name.id
                                          # outcome[1][1].expr.value.value.name.id
                       ELSE /\ outcome[1][1].expr.kind = "Set"
                            /\ outcome[1][1].expr.name.name = <<"b">>
                            /\ IF target = "get"
                               THEN IsVar(outcome[1][1].expr.object, "a")
                               ELSE /\ outcome[1][1].expr.object.kind = "Call"
                                    /\ IsVar(outcome[1][1].expr.object.callee, "a")
               ELSE /\ Len(outcome[2]) = 1
                    /\ outcome[2][1].kind = "Error"
                    /\ outcome[2][1].message = "Invalid assignment target"
                    /\ outcome[2][1].span
                           = Span_new(0, 2 * Len(AssignmentTargets[target]) - 1)
                    /\ Len(outcome[1]) = 1
                    /\ outcome[1][1].kind = "Dummy"
    /\ (/\ pipeline = <<>>
        /\ Len(outcome) = 2
        /\ parser.scanner.items = ScannerItems(
               <<Ident("a"), TK("Equal"), Num(1), TK("Equal"), Num(2), TK("Semicolon")>>))
       => /\ Len(outcome[2]) = 1
          /\ outcome[2][1].message = "Invalid assignment target"
          /\ outcome[2][1].span = Span_new(4, 5)

\* a().b = b = c; has been parsed into a Set whose value is an Assignment.
C27_Witness ==
    /\ ParsedAssignment("get_of_call", TRUE)
    /\ outcome[1][1].expr.kind = "Set"
    /\ outcome[1][1].expr.value.kind = "Assignment"

\* (a) = 1; has been refused.
C27_WitnessGrouping ==
    /\ ParsedAssignment("grouping", FALSE)
    /\ Len(outcome[2]) = 1
\* ------------------------------------------------- claims on identifier ids

\* C28: every id minted is higher than every id minted before it, whichever
\* threads minted them and however their steps interleave; a clone has the id
\* of its original and two different occurrences have different ids; so the
\* entry of the interpreter's locals for an occurrence holds the depth that
\* was recorded for that occurrence.
C28_IdsAreUnique ==
    pipeline.program.name = "Ids" =>
        /\ \A i, j \in DOMAIN pipeline.minted :
               i < j => pipeline.minted[i] < pipeline.minted[j]
        /\ \A t, u \in 1..Threads :
               (t # u /\ pipeline.threads[t].pc = "new" /\ pipeline.threads[u].pc = "new")
                   => pipeline.threads[t].id # pipeline.threads[u].id
        /\ \A i, j \in pipeline.idents :
               (i.ident.id = j.ident.id) <=> (i.ident.span = j.ident.span)
        /\ \A i \in pipeline.idents :
               i.ident.span \in DOMAIN pipeline.written =>
                   /\ i.ident.id \in DOMAIN pipeline.locals
                   /\ pipeline.locals[i.ident.id] = pipeline.written[i.ident.span]

\* Both threads are inside LoxIdent::new at once, after the first has built
\* an identifier that has been cloned and resolved.
C28_Witness ==
    /\ pipeline.program.name = "Ids"
    /\ \A t \in 1..Threads : pipeline.threads[t].pc = "new"
    /\ \E i, j \in pipeline.idents :
           /\ ~i.clone /\ j.clone
           /\ i.ident = j.ident
           /\ i.ident.id \in DOMAIN pipeline.locals

\* Three occurrences minted by two threads are in the interpreter's locals.
C28_WitnessLocals ==
    /\ pipeline.program.name = "Ids"
    /\ \E t, u \in 1..Threads : t # u /\ pipeline.threads[t].mints > 0
                                       /\ pipeline.threads[u].mints > 0
    /\ Cardinality(DOMAIN pipeline.locals) = MaxMints

\* ------------------------------------------- claims on the order of the stages

\* The interpreter of the run has evaluated no statement: it is as
\* Interpreter::new made it, but for the distances the resolver recorded.
NothingExecuted ==
    /\ pipeline.interpreted = <<>>
    /\ pipeline.interpreter # <<>> =>
           pipeline.interpreter[1] =
               [Interpreter_new(parser.ast_id_seq, pipeline.clock, pipeline.hash_seed)
                EXCEPT !.locals = pipeline.interpreter[1].locals]

\* C29: handle_parser_outcome runs the resolver only on a parse without
\* errors, and so on a tree without Dummy, and the interpreter only after the
\* resolver returned ok; a program with a parse error or a resolve error has
\* none of its statements executed and nothing printed, and neither
\* unreachable!() of the Dummy arms is met.
C29_StagesInOrder ==
    /\ pipeline.phase = "parse" =>
           pipeline.resolved = <<>> /\ pipeline.interpreter = <<>>
    /\ pipeline.resolved # <<>> =>
           /\ Len(outcome) = 2
           /\ outcome[2] = <<>>
           /\ ~ForestHasDummy(outcome[1])
           /\ ~pipeline.resolved[1].panicked
    /\ (pipeline.phase = "interpret" \/ pipeline.interpreted # <<>>) =>
           /\ pipeline.resolved # <<>>
           /\ pipeline.resolved[1].ok
    /\ (pipeline.phase = "done"
            /\ (outcome[2] # <<>> \/ ~pipeline.resolved[1].ok)) =>
           /\ NothingExecuted
           /\ pipeline.reports[Len(pipeline.reports)].result = "Failed"
           /\ pipeline.reports[Len(pipeline.reports)].printed = <<>>
           /\ pipeline.reports[Len(pipeline.reports)].diagnostics # <<>>
    /\ \A i \in 1..Len(pipeline.interpreter) :
           pipeline.interpreter[i].panicked # <<"unreachable">>
    /\ (pipeline.program.name = "Broken" /\ pipeline.phase = "done") =>
           /\ (pipeline.resolved = <<>>)
                  = (pipeline.program.at \in {"parse", "parse_block", "parse_first"})
           /\ (pipeline.resolved # <<>> /\ ~pipeline.resolved[1].ok)
                  = (pipeline.program.at
                         \in {"resolve", "resolve_block", "resolve_function"})
           /\ pipeline.reports[Len(pipeline.reports)].printed
                  = (IF pipeline.program.at = "runtime" THEN <<<<"1">>>> ELSE <<>>)

\* print 1; { print 2; 1 + ; } has ended in the parse error: the tree holds a
\* Dummy, the resolver has not run and nothing is printed.
C29_Witness ==
    /\ pipeline.program.name = "Broken"
    /\ pipeline.program.at = "parse_block"
    /\ pipeline.phase = "done"
    /\ ForestHasDummy(outcome[1])
    /\ pipeline.resolved = <<>>
    /\ pipeline.reports[Len(pipeline.reports)].printed = <<>>

\* print 1; fun f() { var a = 1; var a = 2; } print 2; has ended in the
\* resolve error of the function that is never called.
C29_WitnessResolve ==
    /\ pipeline.program.name = "Broken"
    /\ pipeline.program.at = "resolve_function"
    /\ pipeline.phase = "done"
    /\ pipeline.resolved # <<>>
    /\ ~pipeline.resolved[1].ok
    /\ pipeline.interpreted = <<>>
\* ------------------------------------------- claims on the pending source

\* The k-th line that read_line returns: a line of stdin, or the empty line
\* of its end.
InputLine(program, k) ==
    IF k <= Len(ReplInput(program)) THEN ReplInput(program)[k] ELSE [text |-> <<>>]

\* The first character of the line that is no blank is a colon.
StartsWithColon(line) ==
    /\ "text" \in DOMAIN line
    /\ \E i \in 1..Len(line.text) :
           /\ line.text[i] = ":"
           /\ \A j \in 1..(i - 1) : line.text[j] = " "

\* The parse of the pending source asks for more input: it returned errors,
\* each of which allows continuation, and stdin is not at its end.
AsksForMore ==
    /\ outcome[2] # <<>>
    /\ \A i \in 1..Len(outcome[2]) : ParseError_allows_continuation(outcome[2][i])
    /\ ~pipeline.is_eof

\* What a step of the Repl does to the pending source.
PendingSourceStep ==
    /\ pipeline'.run = pipeline.run + 1 =>
           LET line == InputLine(pipeline.program, pipeline'.run)
           IN  /\ pipeline'.is_eof = (pipeline.run >= Len(ReplInput(pipeline.program)))
               /\ IF StartsWithColon(line)
                  THEN /\ pipeline'.current_src = pipeline.current_src
                       /\ pipeline'.phase = "parse" => pipeline'.loading
                  ELSE /\ pipeline'.current_src = pipeline.current_src \o LineTokens(line)
                       /\ pipeline'.phase = "parse"
                       /\ ~pipeline'.loading
    /\ (pipeline.phase = "parse" /\ pipeline'.phase # "parse" /\ ~pipeline.loading) =>
           IF AsksForMore
           THEN /\ pipeline'.phase = "read"
                /\ pipeline'.current_src = pipeline.current_src
                /\ pipeline'.current_src # <<>>
                /\ pipeline'.reports = pipeline.reports
           ELSE /\ pipeline'.phase \in {"interpret", "done"}
                /\ pipeline'.current_src = pipeline.current_src
    /\ (pipeline.phase \in {"parse", "interpret"} /\ pipeline'.phase = "done") =>
           Len(pipeline'.reports) = Len(pipeline.reports) + 1
    /\ (pipeline.phase = "done" /\ pipeline'.phase # "done") =>
           /\ pipeline'.phase = "read"
           /\ pipeline'.reports = pipeline.reports
           /\ pipeline'.current_src = IF pipeline.loading THEN pipeline.current_src ELSE <<>>
    /\ pipeline'.current_src # pipeline.current_src =>
           \/ pipeline'.run = pipeline.run + 1
           \/ pipeline.phase = "done" /\ pipeline'.current_src = <<>>
    /\ pipeline'.phase = "exited" => pipeline.done

\* The results of the sources and files that a prompt has handled when the
\* Repl has ended.
PromptResults ==
    [continuation |-> <<"Ok", "Ok", "Ok">>,
     eof_pending |-> <<"Ok", "Failed", "Ok">>,
     commands |-> <<"Ok", "Ok", "Ok">>,
     exit |-> <<"Ok">>,
     exit_pending |-> <<>>,
     error |-> <<"Failed", "Ok", "Ok">>,
     mixed |-> <<"Failed", "Ok", "Ok">>,
     load |-> <<"Ok", "Ok", "Ok">>,
     load_broken |-> <<"Failed", "Ok", "Ok">>,
     load_missing |-> <<"Ok", "Ok">>,
     load_no_argument |-> <<>>]

\* The Repl has ended: each pending source was handled once.
PendingSourceHandledOnce ==
    (pipeline.program.name = "Prompt" /\ pipeline.phase = "exited") =>
        /\ [i \in DOMAIN pipeline.reports |-> pipeline.reports[i].result]
               = PromptResults[pipeline.program.use]
        /\ pipeline.program.use # "load_no_argument"
        /\ pipeline.current_src # <<>> <=> pipeline.program.use = "exit_pending"
        /\ pipeline.program.use \in {"exit", "exit_pending"} <=> ~pipeline.is_eof

\* C30: a line that is no command is appended to the pending source, which is
\* kept for the next prompt exactly when its parse returns errors that all
\* allow continuation and stdin is not at its end; otherwise the pending
\* source is handled once and then emptied; a line whose first character is
\* a colon leaves the pending source as it is; and once stdin is at its end
\* and the pending source is empty the loop ends.
C30_PendingSource ==
    /\ [][PendingSourceStep]_vars
    /\ []PendingSourceHandledOnce
    /\ (pipeline.is_eof /\ pipeline.current_src = <<>>) ~> (pipeline.phase = "exited")

\* print 1; and { print 2; have been read and stdin has ended: the pending
\* source was reported and emptied, and the next read has ended the loop.
C30_Witness ==
    /\ pipeline.program.name = "Prompt"
    /\ pipeline.program.use = "eof_pending"
    /\ pipeline.phase = "exited"
    /\ Len(pipeline.reports) = 3
    /\ pipeline.reports[2].result = "Failed"
    /\ pipeline.current_src = <<>>

\* { is pending and :load f is running the file: the pending source is as it
\* was.
C30_WitnessCommand ==
    /\ pipeline.program.name = "Prompt"
    /\ pipeline.program.use = "load"
    /\ pipeline.loading
    /\ pipeline.phase = "interpret"
    /\ pipeline.current_src = <<TK("LeftBrace")>>
====
